---- MODULE Spec2Model ----
(***************************************************************************)
(* The glTF scene loader and animation evaluator of                        *)
(* src/homework/homework1/homework1.cpp (class VulkanglTFModel and the     *)
(* parts of VulkanExample that drive it), as a state machine.              *)
(*                                                                         *)
(* Numbers.  A C++ float is <<m, e>>, the value m * 2^e with m odd (zero   *)
(* is <<0, 0>>; the sign of zero is not kept), or NaN, PosInf, NegInf.     *)
(* Sums, products, quotients and square roots are rounded to the nearest   *)
(* float as IEEE 754 binary32 does.  Keyframe times and the playback clock *)
(* are integers, counted in ticks of a time grid.  Unsigned 32-bit         *)
(* arithmetic keeps its width (U32).                                       *)
(*                                                                         *)
(* Pointers.  A Node* is the position of the node in pool, the arena of    *)
(* every Node allocated with new; the null pointer is Null.                *)
(*                                                                         *)
(* glTF indices are 0-based; element i of a glTF array is element i + 1    *)
(* of the sequence that models it.                                         *)
(***************************************************************************)
EXTENDS Integers, Sequences, FiniteSets, TLC

--------------------------------------------------------------------------
(* Bounds of the model *)

\* largest step of the playback clock (frameTimer) handed to a frame
MaxDelta == 3
\* the playback clock is followed up to this time
MaxTime == 6
\* source indices of a primitive are drawn from 0..MaxSrcIndex
MaxSrcIndex == 1
\* the greatest node index a channel of the forest assets names; the nodes
\* of these assets have the indices 0..4
MaxNodeIndex == 5

--------------------------------------------------------------------------
(* float values and their arithmetic *)

Abs(n) == IF n < 0 THEN -n ELSE n
Sgn(n) == IF n < 0 THEN -1 ELSE 1

\* The element of a set of one element.  The({F(p) : p \in {e}}) is F(e)
\* with e evaluated once, before F.
The(S) == CHOOSE v \in S : TRUE

\* the number of bits of a natural number, and the number of its trailing
\* zero bits (a > 0)
BitLen(a) == IF a = 0 THEN 0 ELSE 1 + (CHOOSE k \in 0..30 : a \div 2^k = 1)
TrailingZeros(a) == CHOOSE k \in 0..30 : a % 2^k = 0 /\ (a \div 2^k) % 2 = 1

Zero == <<0, 0>>
NaN == <<"NaN">>
PosInf == <<"+inf">>
NegInf == <<"-inf">>
Inf(s) == IF s < 0 THEN NegInf ELSE PosInf
\* any float: what a read outside an object yields, and the result of an
\* operation on a value the model does not compute when it need not be finite
Indeterminate == <<"indeterminate">>
\* a finite float the model does not compute (it is made with sin and acos):
\* any finite float, zero included
Transcendental == <<"transcendental">>

IsFinite(x) == Len(x) = 2
\* a finite value is below 2^k in magnitude
Below(x, k) == BitLen(Abs(x[1])) + x[2] <= k
IsInf(x) == x = PosInf \/ x = NegInf
\* the sign of a value that is finite or infinite: -1, 0 or 1
SignOf(x) ==
    IF x = PosInf THEN 1 ELSE IF x = NegInf THEN -1
    ELSE IF x[1] > 0 THEN 1 ELSE IF x[1] < 0 THEN -1 ELSE 0

\* s * sig * 2^e with an odd mantissa (sig > 0)
Canon(s, sig, e) ==
    LET tz == TrailingZeros(sig) IN <<s * (sig \div 2^tz), e + tz>>

\* sig with its last sh bits shifted out; a bit shifted out leaves a 1 in the
\* last place (the sticky bit)
Jam(sig, sh) ==
    IF sh = 0 THEN sig
    ELSE IF sh > 30 THEN 1
    ELSE LET q == sig \div 2^sh
         IN  IF sig % 2^sh = 0 \/ q % 2 = 1 THEN q ELSE q + 1

\* The float nearest to s * sig * 2^e (sig > 0), ties to the even mantissa:
\* 24 bits are kept, fewer below 2^-126 (the last place is never below
\* 2^-149); from 2^128 on the result is infinite.
RoundBits(s, sig, e, L, sh) ==
    IF sh <= 0 THEN (IF L + e > 128 THEN Inf(s) ELSE Canon(s, sig, e))
    ELSE IF sh > 31 THEN Zero
    ELSE LET q == IF sh = 31 THEN 0 ELSE sig \div 2^sh
             r == IF sh = 31 THEN sig ELSE sig % 2^sh
             half == 2^(sh - 1)
             m == IF r > half \/ (r = half /\ q % 2 = 1) THEN q + 1 ELSE q
         IN  IF m = 0 THEN Zero
             ELSE IF BitLen(m) + e + sh > 128 THEN Inf(s)
             ELSE Canon(s, m, e + sh)
RoundLen(s, sig, e, L) ==
    RoundBits(s, sig, e, L, IF e + L - 24 < -149 THEN -149 - e ELSE L - 24)
Round(s, sig, e) == RoundLen(s, sig, e, BitLen(sig))

\* a finite value other than zero with its mantissa shifted to 24 bits
NormLen(x, L) == [s |-> Sgn(x[1]), m |-> Abs(x[1]) * 2^(24 - L), e |-> x[2] - (24 - L)]
Norm(x) == NormLen(x, BitLen(Abs(x[1])))

\* (float)n of an integer n
R(n) ==
    IF n = 0 THEN Zero
    ELSE IF n % 2 = 1 /\ Abs(n) < 2^24 THEN <<n, 0>>
    ELSE Round(Sgn(n), Abs(n), 0)
One == R(1)

\* the sum of two normalised values, hi with the greater exponent, on
\* mantissas with three more bits
RoundTotal(total, e) == IF total = 0 THEN Zero ELSE Round(Sgn(total), Abs(total), e)
AddAligned(hi, lo) ==
    RoundTotal(hi.s * (hi.m * 8) + lo.s * Jam(lo.m * 8, hi.e - lo.e), hi.e - 3)
AddNormal(a, b) == IF a.e >= b.e THEN AddAligned(a, b) ELSE AddAligned(b, a)

\* the sum of two finite values other than zero; a sum of two short
\* mantissas at nearby places is exact
AddFinite(x, y) ==
    IF /\ x[2] = y[2] /\ x[2] < 100 /\ x[2] > -100
       /\ x[1] < 8388608 /\ x[1] > -8388608 /\ y[1] < 8388608 /\ y[1] > -8388608
    THEN (IF x[1] + y[1] = 0 THEN Zero
          ELSE Canon(Sgn(x[1] + y[1]), Abs(x[1] + y[1]), x[2]))
    ELSE IF /\ x[2] > y[2] /\ x[2] - y[2] <= 12 /\ y[2] > -100 /\ x[2] < 100
            /\ x[1] < 2048 /\ x[1] > -2048 /\ y[1] < 8388608 /\ y[1] > -8388608
    THEN <<x[1] * 2^(x[2] - y[2]) + y[1], y[2]>>
    ELSE IF /\ y[2] > x[2] /\ y[2] - x[2] <= 12 /\ x[2] > -100 /\ y[2] < 100
            /\ y[1] < 2048 /\ y[1] > -2048 /\ x[1] < 8388608 /\ x[1] > -8388608
    THEN <<y[1] * 2^(y[2] - x[2]) + x[1], x[2]>>
    ELSE AddNormal(Norm(x), Norm(y))

RNeg(x) ==
    IF x = NaN \/ x = Indeterminate \/ x = Transcendental THEN x
    ELSE IF IsInf(x) THEN Inf(-SignOf(x))
    ELSE <<-x[1], x[2]>>

\* x + y where a side is not a finite value the model computes.  An
\* infinity absorbs every finite float; the greatest float plus a value
\* below 2^103, half its last place, is finite, a greater sum need not be.
AddSpecial(x, y) ==
    IF x = NaN \/ y = NaN THEN NaN
    ELSE IF x = Indeterminate \/ y = Indeterminate THEN Indeterminate
    ELSE IF IsInf(x) THEN (IF IsInf(y) /\ y # x THEN NaN ELSE x)
    ELSE IF IsInf(y) THEN y
    ELSE IF x = Transcendental
    THEN (IF IsFinite(y) /\ Below(y, 103) THEN Transcendental ELSE Indeterminate)
    ELSE (IF Below(x, 103) THEN Transcendental ELSE Indeterminate)

Add(x, y) ==
    IF Len(x) = 2 /\ Len(y) = 2
    THEN (IF x[1] = 0 THEN y ELSE IF y[1] = 0 THEN x ELSE AddFinite(x, y))
    ELSE AddSpecial(x, y)

\* x + y in float
RAdd(x, y) == Add(x, y)

RSub(x, y) == RAdd(x, RNeg(y))

\* the product of two normalised values: the 48 bits of the product of the
\* mantissas, computed on halves of 12 bits, cut to 27
MulNormal(a, b) ==
    LET hh == (a.m \div 4096) * (b.m \div 4096)
        mid == (a.m \div 4096) * (b.m % 4096) + (a.m % 4096) * (b.m \div 4096)
        low == (mid % 512) * 4096 + (a.m % 4096) * (b.m % 4096)
        sig == hh * 8 + mid \div 512 + low \div 2^21
        jam == IF low % 2^21 = 0 \/ sig % 2 = 1 THEN sig ELSE sig + 1
    IN  Round(a.s * b.s, jam, a.e + b.e + 21)

\* the product of two finite values other than zero; a product of two
\* mantissas of 12 bits is exact
MulFinite(x, y) ==
    IF /\ x[1] < 4096 /\ x[1] > -4096 /\ y[1] < 4096 /\ y[1] > -4096
       /\ x[2] < 50 /\ x[2] > -50 /\ y[2] < 50 /\ y[2] > -50
    THEN <<x[1] * y[1], x[2] + y[2]>>
    ELSE MulNormal(Norm(x), Norm(y))

\* x * y where a side is not a finite value the model computes.  A finite
\* float times a value of magnitude at most 1 is finite; times a greater
\* one it may be infinite, and times an infinity it is infinite or NaN.
MulSpecial(x, y) ==
    IF x = NaN \/ y = NaN THEN NaN
    ELSE IF x = Indeterminate \/ y = Indeterminate THEN Indeterminate
    ELSE IF x = Transcendental
    THEN (IF y = Zero THEN Zero
          ELSE IF IsFinite(y) /\ (Below(y, 0) \/ y = One \/ y = <<-1, 0>>) THEN Transcendental
          ELSE Indeterminate)
    ELSE IF y = Transcendental
    THEN (IF x = Zero THEN Zero
          ELSE IF IsFinite(x) /\ (Below(x, 0) \/ x = One \/ x = <<-1, 0>>) THEN Transcendental
          ELSE Indeterminate)
    ELSE IF x = Zero \/ y = Zero THEN NaN
    ELSE Inf(SignOf(x) * SignOf(y))

Mul(x, y) ==
    IF Len(x) = 2 /\ Len(y) = 2
    THEN (IF x[1] = 0 \/ y[1] = 0 THEN Zero ELSE MulFinite(x, y))
    ELSE MulSpecial(x, y)

\* x * y in float
RMul(x, y) == Mul(x, y)

\* k more bits of the quotient q of a long division by d with remainder r
RECURSIVE DivBits(_, _, _, _)
DivBits(r, d, q, k) ==
    IF k = 0 THEN <<q, r>>
    ELSE The({ DivBits(n[1], n[2], n[3], n[4]) :
                 n \in { IF 2 * r >= d THEN <<2 * r - d, d, 2 * q + 1, k - 1>>
                         ELSE <<2 * r, d, 2 * q, k - 1>> } })

\* the float nearest to s * q * 2^e for a quotient or root q with its
\* remainder, qr = <<q, remainder>>: a remainder leaves a 1 in the last place
RoundSticky(s, qr, e) ==
    Round(s, IF qr[2] = 0 \/ qr[1] % 2 = 1 THEN qr[1] ELSE qr[1] + 1, e)
\* the quotient of two normalised values, to 27 bits
DivNormal(a, b) ==
    RoundSticky(a.s * b.s, DivBits(a.m % b.m, b.m, a.m \div b.m, 26), a.e - b.e - 26)

\* the quotient of two finite values other than zero; a quotient by a
\* power of two is exact
DivFinite(x, y) ==
    IF (y[1] = 1 \/ y[1] = -1) /\ x[2] < 50 /\ x[2] > -50 /\ y[2] < 50 /\ y[2] > -50
    THEN <<x[1] * y[1], x[2] - y[2]>>
    ELSE DivNormal(Norm(x), Norm(y))

\* x / y where a side is not a finite value the model computes.  A finite
\* float the model does not compute may be zero, so a quotient by it may be
\* infinite or NaN; divided by a value of magnitude at least 1 it is finite,
\* and divided by an infinity it is zero.
DivSpecial(x, y) ==
    IF x = NaN \/ y = NaN THEN NaN
    ELSE IF x = Indeterminate \/ y = Indeterminate THEN Indeterminate
    ELSE IF y = Transcendental THEN Indeterminate
    ELSE IF x = Transcendental
    THEN (IF IsInf(y) THEN Zero
          ELSE IF ~Below(y, 0) THEN Transcendental
          ELSE Indeterminate)
    ELSE IF IsInf(x) THEN (IF IsInf(y) THEN NaN
                           ELSE Inf(SignOf(x) * (IF SignOf(y) < 0 THEN -1 ELSE 1)))
    ELSE Zero

Div(x, y) ==
    IF Len(x) = 2 /\ Len(y) = 2
    THEN (IF y[1] = 0 THEN (IF x[1] = 0 THEN NaN ELSE Inf(Sgn(x[1])))
          ELSE IF x[1] = 0 THEN Zero
          ELSE DivFinite(x, y))
    ELSE DivSpecial(x, y)

\* x / y in float
RDiv(x, y) == Div(x, y)

\* the float nearest to the quotient of two integers
Rat(n, d) == RDiv(R(n), R(d))

\* x < y and x <= y in float, for values that are known: false when a side
\* is NaN
IsKnown(x) == x # Indeterminate /\ x # Transcendental
RLess(x, y) ==
    IF x = NaN \/ y = NaN THEN FALSE
    ELSE IF x = y THEN FALSE
    ELSE IF IsInf(x) \/ IsInf(y) THEN x = NegInf \/ y = PosInf
    ELSE SignOf(RSub(x, y)) < 0
RLeq(x, y) == x # NaN /\ y # NaN /\ (x = y \/ RLess(x, y))

\* k more bits of the square root: pairs holds the bits of the radicand
\* still to come, two at a time, as a number of n pairs
RECURSIVE SqrtBits(_, _, _, _, _)
SqrtBits(pairs, n, root, rem, k) ==
    IF k = 0 THEN <<root, rem>>
    ELSE LET next == IF n = 0 THEN 0 ELSE pairs \div 4^(n - 1)
             rest == IF n = 0 THEN 0 ELSE pairs % 4^(n - 1)
             r == rem * 4 + next
             trial == root * 4 + 1
         IN  The({ SqrtBits(t[1], t[2], t[3], t[4], t[5]) :
                     t \in { IF r >= trial
                             THEN <<rest, IF n = 0 THEN 0 ELSE n - 1, 2 * root + 1,
                                    r - trial, k - 1>>
                             ELSE <<rest, IF n = 0 THEN 0 ELSE n - 1, 2 * root, r,
                                    k - 1>> } })

\* the square root of a normalised value, to 27 bits
SqrtNormal(a) ==
    LET m == IF a.e % 2 = 0 THEN a.m ELSE 2 * a.m
        e == IF a.e % 2 = 0 THEN a.e ELSE a.e - 1
    IN  RoundSticky(1, SqrtBits(m, 13, 0, 0, 27), e \div 2 - 14)

Sqrt(x) ==
    IF x = NaN \/ x = Indeterminate \/ x = Zero \/ x = PosInf THEN x
    ELSE IF x = Transcendental THEN Indeterminate
    ELSE IF SignOf(x) < 0 THEN NaN
    ELSE SqrtNormal(Norm(x))

\* sqrt(x) in float
RSqrt(x) == Sqrt(x)

--------------------------------------------------------------------------
(* glm vectors, quaternions and matrices *)

\* glm::vec3 as <<x, y, z>>, glm::vec4 as <<x, y, z, w>>
V3(x, y, z) == <<R(x), R(y), R(z)>>
V4(x, y, z, w) == <<R(x), R(y), R(z), R(w)>>
\* glm::quat as a record; glm::make_quat reads x, y, z, w in this order
Quat(x, y, z, w) == [x |-> x, y |-> y, z |-> z, w |-> w]

\* glm::mat4 m is modelled row-major: M[r][c] is glm's m[c - 1][r - 1]
Identity4 ==
    << <<One, Zero, Zero, Zero>>, <<Zero, One, Zero, Zero>>,
       <<Zero, Zero, One, Zero>>, <<Zero, Zero, Zero, One>> >>

\* the values f[1], f[2], ... as a tuple: the rows of a matrix, the entries
\* of a row, the components of a vector
Tuple4(f) == <<f[1], f[2], f[3], f[4]>>
Tuple3(f) == <<f[1], f[2], f[3]>>

\* the entry of row r and column c of the product A * B: glm adds the four
\* products from left to right
Cell(A, B, r, c) ==
    RAdd(RAdd(RAdd(RMul(A[r][1], B[1][c]), RMul(A[r][2], B[2][c])),
              RMul(A[r][3], B[3][c])),
         RMul(A[r][4], B[4][c]))
Row(A, B, r) == Tuple4([c \in 1..4 |-> Cell(A, B, r, c)])
MatMul(A, B) == Tuple4([r \in 1..4 |-> Row(A, B, r)])

\* glm::translate(m, v): the last column becomes
\* m[0] * v[0] + m[1] * v[1] + m[2] * v[2] + m[3]
TranslateRow(M, v, r) ==
    << M[r][1], M[r][2], M[r][3],
       RAdd(RAdd(RAdd(RMul(M[r][1], v[1]), RMul(M[r][2], v[2])), RMul(M[r][3], v[3])),
            M[r][4]) >>
Translate(M, v) == Tuple4([r \in 1..4 |-> TranslateRow(M, v, r)])

\* glm::translate(glm::mat4(1.0f), v)
TranslateMat(v) == Translate(Identity4, v)

\* glm::scale(m, v): the first three columns are multiplied by v[0], v[1], v[2]
ScaleRow(M, v, r) ==
    <<RMul(M[r][1], v[1]), RMul(M[r][2], v[2]), RMul(M[r][3], v[3]), M[r][4]>>
Scale(M, v) == Tuple4([r \in 1..4 |-> ScaleRow(M, v, r)])

\* glm::scale(glm::mat4(1.0f), v)
ScaleMat(v) == Scale(Identity4, v)

\* 2 * v and 1 - 2 * v in float
Twice(v) == RMul(<<1, 1>>, v)
OneLessTwice(v) == RSub(One, Twice(v))

\* glm's mat3_cast from the nine products of the components of a quaternion
QuatMatOf(p) ==
    << <<OneLessTwice(RAdd(p.yy, p.zz)), Twice(RSub(p.xy, p.wz)),
         Twice(RAdd(p.xz, p.wy)), Zero>>,
       <<Twice(RAdd(p.xy, p.wz)), OneLessTwice(RAdd(p.xx, p.zz)),
         Twice(RSub(p.yz, p.wx)), Zero>>,
       <<Twice(RSub(p.xz, p.wy)), Twice(RAdd(p.yz, p.wx)),
         OneLessTwice(RAdd(p.xx, p.yy)), Zero>>,
       <<Zero, Zero, Zero, One>> >>

\* glm::mat4(q), glm's mat4_cast of a quaternion
QuatMat(q) ==
    QuatMatOf([xx |-> RMul(q.x, q.x), yy |-> RMul(q.y, q.y), zz |-> RMul(q.z, q.z),
               xy |-> RMul(q.x, q.y), xz |-> RMul(q.x, q.z), yz |-> RMul(q.y, q.z),
               wx |-> RMul(q.w, q.x), wy |-> RMul(q.w, q.y), wz |-> RMul(q.w, q.z)])

\* glm::make_mat4x4(data): 16 values, column after column
MakeMat4(data) ==
    << <<data[1], data[5], data[9], data[13]>>, <<data[2], data[6], data[10], data[14]>>,
       <<data[3], data[7], data[11], data[15]>>, <<data[4], data[8], data[12], data[16]>> >>

\* the point a matrix maps (x, y, z, 1) to
ApplyRow(M, p, r) ==
    RAdd(RAdd(RMul(M[r][1], p[1]), RMul(M[r][2], p[2])),
         RAdd(RMul(M[r][3], p[3]), M[r][4]))
Apply(M, p) == <<ApplyRow(M, p, 1), ApplyRow(M, p, 2), ApplyRow(M, p, 3)>>

\* glm::mix(x, y, a) = x * (1 - a) + y * a
Mix(x, y, a) == RAdd(RMul(x, RSub(One, a)), RMul(y, a))

--------------------------------------------------------------------------
(* Program constants *)

\* std::numeric_limits<float>::max(), the first value of Animation::start
FltMax == 1000000
\* std::numeric_limits<float>::min(), the first value of Animation::end: the
\* smallest positive float, below every positive time of the grid
FltMin == 1
\* one step of the time grid: keyframe times and clock steps are multiples of it
Step == 2 * FltMin

\* a float difference a - b: a value below the grid step is lost against a
\* value on the grid (it is far below half an ulp of it)
FSub(a, b) == IF Abs(b) < Step /\ Abs(a) >= Step THEN a ELSE a - b

\* A value converted to uint32_t and the uint32_t sum of two values, computed
\* on 16-bit halves (the integers of TLC end at 2^31 - 1, and so do
\* the values of the model).
U32(x) == ((x \div 65536) % 65536) * 65536 + (x % 65536)
AddU32(a, b) ==
    LET lo == (a % 65536) + (b % 65536)
        hi == (a \div 65536) + (b \div 65536) + (lo \div 65536)
    IN  (hi % 65536) * 65536 + (lo % 65536)

Null == 0

--------------------------------------------------------------------------
(* VulkanglTFModel::loadNode *)

\* the bytes of one index of the given width in a buffer, little-endian
RECURSIVE ReadLE(_, _, _)
ReadLE(data, at, width) ==
    IF width = 0 THEN 0 ELSE data[at] + 256 * ReadLE(data, at + 1, width - 1)

\* buf[index] of a buffer reinterpreted as uint8_t, uint16_t or uint32_t
ReadIndex(data, index, width) == ReadLE(data, index * width + 1, width)

\* glm::normalize of a vec3: v * inversesqrt(dot(v, v)), with
\* inversesqrt(x) = 1 / sqrt(x); for the zero vector inversesqrt is +inf and
\* every component is 0 * inf = NaN
Dot3(v, w) == RAdd(RAdd(RMul(v[1], w[1]), RMul(v[2], w[2])), RMul(v[3], w[3]))
Scaled3(v, s) == Tuple3([k \in 1..3 |-> RMul(v[k], s)])
Normalize3(v) == Scaled3(v, RDiv(One, RSqrt(Dot3(v, v))))

\* Mesh::uniformBuffer: whether the buffer is mapped, whether a matrix was
\* written to the mapped memory, and that matrix
Unmapped == [mapped |-> FALSE, written |-> FALSE, matrix |-> <<>>]
Uninitialized == [mapped |-> TRUE, written |-> FALSE, matrix |-> <<>>]
Written(m) == [mapped |-> TRUE, written |-> TRUE, matrix |-> m]

\* new VulkanglTFModel::Node{} with the fields loadNode sets at once
NewNode(inputNode, parent, nodeIndex) ==
    [ parent      |-> parent,
      children    |-> <<>>,
      primitives  |-> <<>>,
      uniform     |-> Unmapped,
      index       |-> nodeIndex,
      matrix      |-> IF Len(inputNode.matrix) = 16 THEN MakeMat4(inputNode.matrix)
                      ELSE Identity4,
      translation |-> IF Len(inputNode.translation) = 3 THEN inputNode.translation
                      ELSE <<Zero, Zero, Zero>>,
      rotation    |-> IF Len(inputNode.rotation) = 4
                      THEN Quat(inputNode.rotation[1], inputNode.rotation[2],
                                inputNode.rotation[3], inputNode.rotation[4])
                      ELSE Quat(Zero, Zero, Zero, Zero),
      scale       |-> IF Len(inputNode.scale) = 3 THEN inputNode.scale
                      ELSE <<One, One, One>> ]

\* the vertices one primitive appends to the vertex buffer
RECURSIVE LoadVertices(_, _, _)
LoadVertices(prim, vertexCount, v) ==
    IF v >= vertexCount THEN <<>>
    ELSE << [ pos    |-> prim.positions[v + 1],
              normal |-> Normalize3(IF "NORMAL" \in prim.attributes
                                    THEN prim.normals[v + 1]
                                    ELSE <<Zero, Zero, Zero>>),
              uv     |-> IF "TEXCOORD_0" \in prim.attributes
                         THEN prim.texcoords[v + 1] ELSE <<Zero, Zero>>,
              color  |-> <<One, One, One>> ] >>
         \o LoadVertices(prim, vertexCount, v + 1)

\* (faulty variant) the indices are copied without the vertex offset
RECURSIVE LoadIndicesNoOffset(_, _, _, _)
LoadIndicesNoOffset(prim, width, vertexStart, index) ==
    IF index >= prim.indexCount THEN <<>>
    ELSE <<ReadIndex(prim.data, index, width)>>
         \o LoadIndicesNoOffset(prim, width, vertexStart, index + 1)

\* (faulty variant) 8-bit indices are counted but not appended
RECURSIVE LoadIndicesSkipBytes(_, _, _, _)
LoadIndicesSkipBytes(prim, width, vertexStart, index) ==
    IF index >= prim.indexCount \/ width = 1 THEN <<>>
    ELSE <<AddU32(ReadIndex(prim.data, index, width), vertexStart)>>
         \o LoadIndicesSkipBytes(prim, width, vertexStart, index + 1)

\* the indices one primitive appends to the index buffer
RECURSIVE LoadIndices(_, _, _, _)
LoadIndices(prim, width, vertexStart, index) ==
    IF index >= prim.indexCount THEN <<>>
    ELSE <<AddU32(ReadIndex(prim.data, index, width), vertexStart)>>
         \o LoadIndices(prim, width, vertexStart, index + 1)

\* bytes per index of a supported component type, 0 for any other
IndexWidth(componentType) ==
    CASE componentType = "UNSIGNED_INT" -> 4
      [] componentType = "UNSIGNED_SHORT" -> 2
      [] componentType = "UNSIGNED_BYTE" -> 1
      [] OTHER -> 0

\* The loop over the primitives of a node's mesh, from primitive i on.  L is
\* the model under construction with the two buffers; the result adds
\* returned, TRUE when loadNode left through the return of the default case.
RECURSIVE LoadPrimitives(_, _, _, _)
LoadPrimitives(L, mesh, node, i) ==
    IF i > Len(mesh) THEN [L |-> L, returned |-> FALSE]
    ELSE
    LET prim == mesh[i]
        firstIndex == U32(Len(L.indexBuffer))
        vertexStart == U32(Len(L.vertexBuffer))
        vertexCount == IF "POSITION" \in prim.attributes THEN prim.count ELSE 0
        vb == L.vertexBuffer \o LoadVertices(prim, vertexCount, 0)
        indexCount == U32(prim.indexCount)
        width == IndexWidth(prim.componentType)
    IN  IF width = 0
        THEN [L |-> [L EXCEPT !.vertexBuffer = vb,
                              !.log = Append(@, "Index component type not supported!")],
              returned |-> TRUE]
        ELSE LET primitive == [ firstIndex    |-> firstIndex,
                                indexCount    |-> indexCount,
                                materialIndex |-> prim.material,
                                vertexStart   |-> vertexStart ]
             IN  LoadPrimitives(
                    [L EXCEPT !.vertexBuffer = vb,
                              !.indexBuffer = @ \o LoadIndices(prim, width, vertexStart, 0),
                              !.pool[node].primitives = Append(@, primitive)],
                    mesh, node, i + 1)

RECURSIVE LoadNode(_, _, _, _)
RECURSIVE LoadChildren(_, _, _, _)

\* the loop over inputNode.children, from child i on
LoadChildren(L, inp, node, i) ==
    LET children == inp.nodes[L.pool[node].index + 1].children
    IN  IF i > Len(children) THEN L
        ELSE LoadChildren(LoadNode(L, inp, node, children[i]), inp, node, i + 1)

\* the end of loadNode, unless it returned from the loop over the
\* primitives: the node is appended to its parent's children or to the
\* roots, and to linearMeshNodes when it has primitives
LinkNode(P, parent, node) ==
    LET L3 == P.L
        L4 == IF parent # Null
              THEN [L3 EXCEPT !.pool[parent].children = Append(@, node)]
              ELSE [L3 EXCEPT !.nodes = Append(@, node)]
    IN  IF P.returned THEN L3
        ELSE IF L4.pool[node].primitives # <<>>
        THEN [L4 EXCEPT !.linearMeshNodes = Append(@, node)]
        ELSE L4

LoadNode(L, inp, parent, nodeIndex) ==
    LET inputNode == inp.nodes[nodeIndex + 1]
        node == Len(L.pool) + 1
        L1 == [L EXCEPT !.pool = Append(@, NewNode(inputNode, parent, nodeIndex))]
        L2 == LoadChildren(L1, inp, node, 1)
        P == IF inputNode.mesh > -1
             THEN LoadPrimitives(L2, inp.meshes[inputNode.mesh + 1], node, 1)
             ELSE [L |-> L2, returned |-> FALSE]
    IN  LinkNode(P, parent, node)

--------------------------------------------------------------------------
(* VulkanglTFModel::findNode, nodeFromIndex and loadAnimations *)

RECURSIVE FindNode(_, _, _)
RECURSIVE FindInChildren(_, _, _, _)

\* the loop of findNode over parent->children, from child i on
FindInChildren(pool, children, index, i) ==
    IF i > Len(children) THEN Null
    ELSE LET nodeFound == FindNode(pool, children[i], index)
         IN  IF nodeFound # Null THEN nodeFound
             ELSE FindInChildren(pool, children, index, i + 1)

\* (faulty variant) only the node and its own children are looked at
FindNodeShallow(pool, parent, index) ==
    LET children == pool[parent].children
        hits == {i \in 1..Len(children) : pool[children[i]].index = index}
    IN  IF pool[parent].index = index THEN parent
        ELSE IF hits = {} THEN Null
        ELSE children[CHOOSE i \in hits : \A j \in hits : i <= j]

FindNode(pool, parent, index) ==
    IF pool[parent].index = index THEN parent
    ELSE FindInChildren(pool, pool[parent].children, index, 1)

RECURSIVE NodeFromIndexFrom(_, _, _, _)
NodeFromIndexFrom(pool, nodes, index, i) ==
    IF i > Len(nodes) THEN Null
    ELSE LET nodeFound == FindNode(pool, nodes[i], index)
         IN  IF nodeFound # Null THEN nodeFound
             ELSE NodeFromIndexFrom(pool, nodes, index, i + 1)

NodeFromIndex(pool, nodes, index) == NodeFromIndexFrom(pool, nodes, index, 1)

\* the start and end of an animation after the scan of one sampler's inputs
RECURSIVE AdjustRange(_, _, _)
AdjustRange(range, inputs, k) ==
    IF k > Len(inputs) THEN range
    ELSE LET input == inputs[k]
             start == IF input < range.start THEN input ELSE range.start
             end == IF input > range.end THEN input ELSE range.end
         IN  AdjustRange([start |-> start, end |-> end], inputs, k + 1)

\* the keyframe values of one sampler as vec4
LoadOutputs(glTFSampler) ==
    CASE glTFSampler.outputType = "VEC3" ->
            [k \in 1..Len(glTFSampler.outputs) |->
                <<glTFSampler.outputs[k][1], glTFSampler.outputs[k][2],
                  glTFSampler.outputs[k][3], Zero>>]
      [] glTFSampler.outputType = "VEC4" ->
            [k \in 1..Len(glTFSampler.outputs) |-> glTFSampler.outputs[k]]
      [] OTHER -> <<>>

\* the loop over the samplers of one animation, from sampler j on;
\* A is the animation under construction with the log
RECURSIVE LoadSamplers(_, _, _)
LoadSamplers(A, glTFAnimation, j) ==
    IF j > Len(glTFAnimation.samplers) THEN A
    ELSE LET glTFSampler == glTFAnimation.samplers[j]
             range == AdjustRange([start |-> A.start, end |-> A.end],
                                  glTFSampler.inputs, 1)
             dstSampler == [ interpolation |-> glTFSampler.interpolation,
                             inputs        |-> glTFSampler.inputs,
                             outputsVec4   |-> LoadOutputs(glTFSampler) ]
         IN  LoadSamplers(
                [A EXCEPT !.samplers = Append(@, dstSampler),
                          !.start = range.start,
                          !.end = range.end,
                          !.log = IF glTFSampler.outputType \in {"VEC3", "VEC4"} THEN @
                                  ELSE Append(@, "unknown type")],
                glTFAnimation, j + 1)

LoadChannel(pool, nodes, glTFChannel) ==
    [ path         |-> glTFChannel.target_path,
      samplerIndex |-> U32(glTFChannel.sampler),
      node         |-> NodeFromIndex(pool, nodes, U32(glTFChannel.target_node)) ]

LoadAnimation(pool, nodes, glTFAnimation, log) ==
    LET A == LoadSamplers([ samplers    |-> <<>>,
                            channels    |-> <<>>,
                            start       |-> FltMax,
                            end         |-> FltMin,
                            currentTime |-> 0,
                            log         |-> log ],
                          glTFAnimation, 1)
    IN  [A EXCEPT !.channels =
            [j \in 1..Len(glTFAnimation.channels) |->
                LoadChannel(pool, nodes, glTFAnimation.channels[j])]]

\* L with the animations of the input appended to L.animations, from i on
RECURSIVE LoadAnimationsFrom(_, _, _)
LoadAnimationsFrom(L, inp, i) ==
    IF i > Len(inp.animations) THEN L
    ELSE LET A == LoadAnimation(L.pool, L.nodes, inp.animations[i], L.log)
         IN  LoadAnimationsFrom(
                [L EXCEPT !.animations = Append(@, [ samplers    |-> A.samplers,
                                                     channels    |-> A.channels,
                                                     start       |-> A.start,
                                                     end         |-> A.end,
                                                     currentTime |-> A.currentTime ]),
                          !.log = A.log],
                inp, i + 1)

LoadAnimations(L, inp) == LoadAnimationsFrom(L, inp, 1)

--------------------------------------------------------------------------
(* VulkanExample::loadglTFFile and prepareMeshUniformBuffers *)

EmptyModel ==
    [ pool |-> <<>>, nodes |-> <<>>, linearMeshNodes |-> <<>>,
      vertexBuffer |-> <<>>, indexBuffer |-> <<>>, animations |-> <<>>,
      log |-> <<>> ]

\* the loop over scene.nodes, from root i on
RECURSIVE LoadScene(_, _, _)
LoadScene(L, inp, i) ==
    IF i > Len(inp.scene) THEN L
    ELSE LoadScene(LoadNode(L, inp, Null, inp.scene[i]), inp, i + 1)

LoadglTFFile(inp) == LoadAnimations(LoadScene(EmptyModel, inp, 1), inp)

\* every renderable node gets a mapped buffer for one matrix; nothing is
\* written to it yet
PrepareMeshUniformBuffers(pool, linearMeshNodes) ==
    [n \in 1..Len(pool) |->
        IF (\E k \in 1..Len(linearMeshNodes) : linearMeshNodes[k] = n)
           /\ pool[n].primitives # <<>>
        THEN [pool[n] EXCEPT !.uniform = Uninitialized]
        ELSE pool[n]]

--------------------------------------------------------------------------
(* Node::getLocalMatrix, getNodeMatrix and updateMeshUniformBuffers *)

\* (faulty variant) scale and rotation in the other order
GetLocalMatrixScaleFirst(node) ==
    MatMul(MatMul(MatMul(TranslateMat(node.translation), ScaleMat(node.scale)),
                  QuatMat(node.rotation)),
           node.matrix)

GetLocalMatrix(node) ==
    MatMul(MatMul(MatMul(TranslateMat(node.translation), QuatMat(node.rotation)),
                  ScaleMat(node.scale)),
           node.matrix)

\* (faulty variant) the ancestor's matrix is multiplied on the right
RECURSIVE WalkParentsRight(_, _, _)
WalkParentsRight(pool, currentParent, nodeMatrix) ==
    IF currentParent = Null THEN nodeMatrix
    ELSE WalkParentsRight(pool, pool[currentParent].parent,
                          MatMul(nodeMatrix, GetLocalMatrix(pool[currentParent])))

\* the while loop of getNodeMatrix, with currentParent and nodeMatrix so far
RECURSIVE WalkParents(_, _, _)
WalkParents(pool, currentParent, nodeMatrix) ==
    IF currentParent = Null THEN nodeMatrix
    ELSE WalkParents(pool, pool[currentParent].parent,
                     MatMul(GetLocalMatrix(pool[currentParent]), nodeMatrix))

GetNodeMatrix(pool, node) ==
    WalkParents(pool, pool[node].parent, GetLocalMatrix(pool[node]))

\* the nodes of pool with the matrix of every renderable node written to
\* its mapped buffer
Published(pool, linearMeshNodes) ==
    [n \in 1..Len(pool) |->
        IF (\E k \in 1..Len(linearMeshNodes) : linearMeshNodes[k] = n)
           /\ pool[n].primitives # <<>> /\ pool[n].uniform.mapped
        THEN [pool[n] EXCEPT !.uniform = Written(GetNodeMatrix(pool, n))]
        ELSE pool[n]]

\* (the set constructor has the model checker evaluate pool once)
UpdateMeshUniformBuffers(pool, linearMeshNodes) ==
    CHOOSE p \in {Published(q, linearMeshNodes) : q \in {pool}} : TRUE

--------------------------------------------------------------------------
(* glm::slerp and glm::normalize of quaternions *)

\* glm::dot of two quaternions: (w w + x x) + (y y + z z)
QDot(p, q) ==
    RAdd(RAdd(RMul(p.w, q.w), RMul(p.x, q.x)), RAdd(RMul(p.y, q.y), RMul(p.z, q.z)))
\* the quaternion of the four components f["x"], ..., f["w"]
QEach(f) == Quat(f["x"], f["y"], f["z"], f["w"])
QTimes(q, s) == QEach([c \in {"x", "y", "z", "w"} |-> RMul(q[c], s)])
QNeg(q) == Quat(RNeg(q.x), RNeg(q.y), RNeg(q.z), RNeg(q.w))
IndeterminateQuat == Quat(Indeterminate, Indeterminate, Indeterminate, Indeterminate)
HasIndeterminate(q) ==
    q.x = Indeterminate \/ q.y = Indeterminate \/ q.z = Indeterminate \/ q.w = Indeterminate
HasTranscendental(q) ==
    q.x = Transcendental \/ q.y = Transcendental \/ q.z = Transcendental
        \/ q.w = Transcendental

\* std::numeric_limits<float>::epsilon(), 2^-23
Epsilon == <<1, -23>>

\* (s * c + 0 * o) / s for the sine s of an angle in (0, pi/2]: c when c is
\* zero or a power of two, where the product and the quotient are exact;
\* otherwise a float next to c, finite when c is below 2^127
SlerpEnd(c, o) ==
    IF c = NaN \/ o = NaN \/ IsInf(o) THEN NaN
    ELSE IF IsInf(c) \/ c = Zero \/ (Abs(c[1]) = 1 /\ c[2] > -100 /\ c[2] < 100) THEN c
    ELSE IF Below(c, 127) THEN Transcendental
    ELSE Indeterminate

\* (s1 * c + s2 * o) / s for sines s1 and s2 in [0, 1] and the sine s of an
\* angle from acos(1 - epsilon) to pi/2, which is above 2^-12: finite when
\* c and o are below 2^100
SlerpInside(c, o) ==
    IF c = NaN \/ o = NaN THEN NaN
    ELSE IF IsFinite(c) /\ IsFinite(o) /\ Below(c, 100) /\ Below(o, 100)
    THEN Transcendental
    ELSE Indeterminate

\* glm::mix of two quaternions, component by component
QMix(x, y, a) == QEach([c \in {"x", "y", "z", "w"} |-> Mix(x[c], y[c], a)])

\* the rest of glm::slerp once z, the quaternion y or its negative, and
\* cosTheta, the dot product of x and z, are known
SlerpNear(x, z, a, cosTheta) ==
    IF RLess(RSub(One, Epsilon), cosTheta) THEN QMix(x, z, a)
    ELSE IF cosTheta = NaN \/ a = NaN THEN Quat(NaN, NaN, NaN, NaN)
    ELSE IF a = Zero
    THEN Quat(SlerpEnd(x.x, z.x), SlerpEnd(x.y, z.y), SlerpEnd(x.z, z.z),
              SlerpEnd(x.w, z.w))
    ELSE IF a = One
    THEN Quat(SlerpEnd(z.x, x.x), SlerpEnd(z.y, x.y), SlerpEnd(z.z, x.z),
              SlerpEnd(z.w, x.w))
    ELSE Quat(SlerpInside(x.x, z.x), SlerpInside(x.y, z.y), SlerpInside(x.z, z.z),
              SlerpInside(x.w, z.w))

\* glm::slerp after cosTheta = dot(x, y): a negative cosTheta has y and
\* cosTheta negated
SlerpFrom(x, y, a, cosTheta) ==
    IF RLess(cosTheta, Zero) THEN SlerpNear(x, QNeg(y), a, RNeg(cosTheta))
    ELSE SlerpNear(x, y, a, cosTheta)

\* glm::slerp(x, y, a).  Quaternions whose dot product is above 1 - epsilon
\* are mixed linearly; otherwise the result is
\* (sin((1 - a) * angle) * x + sin(a * angle) * z) / sin(angle) with
\* angle = acos(cosTheta), where the sines are 0 and sin(angle) at a = 0 and
\* at a = 1.
Slerp(x, y, a) ==
    IF HasIndeterminate(x) \/ HasIndeterminate(y) \/ a = Indeterminate
    THEN IndeterminateQuat
    ELSE SlerpFrom(x, y, a, QDot(x, y))

\* glm::normalize(q) once len, the length of q, is known
NormalizeBy(q, len) ==
    IF RLeq(len, Zero) THEN Quat(Zero, Zero, Zero, One)
    ELSE QTimes(q, RDiv(One, len))

\* one component c of glm::normalize(q) for a q with a finite component the
\* model does not compute.  The length is NaN when a component is NaN, and
\* every component of the result with it; it is infinite when a component
\* is infinite, 1 / length is 0 and the result is NaN where q is infinite
\* and 0 elsewhere.  Otherwise the result is finite: the identity
\* quaternion for a length of 0, and a component times 1 / length, which
\* is 0 when the length overflows.
NormalizedUnknown(q, c) ==
    IF q.x = NaN \/ q.y = NaN \/ q.z = NaN \/ q.w = NaN THEN NaN
    ELSE IF IsInf(q.x) \/ IsInf(q.y) \/ IsInf(q.z) \/ IsInf(q.w)
    THEN (IF IsInf(q[c]) THEN NaN ELSE Zero)
    ELSE Transcendental

\* glm::normalize(q): the identity quaternion when the length is not
\* positive, otherwise every component times 1 / length
Normalize(q) ==
    IF HasIndeterminate(q) THEN IndeterminateQuat
    ELSE IF HasTranscendental(q)
    THEN QEach([c \in {"x", "y", "z", "w"} |-> NormalizedUnknown(q, c)])
    ELSE NormalizeBy(q, RSqrt(QDot(q, q)))

--------------------------------------------------------------------------
(* VulkanglTFModel::updateAnimation *)

\* glm::mix of two vec4 keyframe values, converted to vec3
Mix3(x, y, a) == Tuple3([k \in 1..3 |-> Mix(x[k], y[k], a)])

\* the quaternion made of the components of a vec4 keyframe value
QuatOf(v) == Quat(v[1], v[2], v[3], v[4])

Paths == {"translation", "rotation", "scale"}

\* the four floats a read outside outputsVec4 yields
IndeterminateVec4 == <<Indeterminate, Indeterminate, Indeterminate, Indeterminate>>

\* sampler.outputsVec4[i], the value of the vector operator[] without a
\* range check
ReadOutput(sampler, i) ==
    IF i + 1 > Len(sampler.outputsVec4) THEN IndeterminateVec4
    ELSE sampler.outputsVec4[i + 1]

\* What a read outside a vector does to the tick.  A read from an empty
\* vector goes through a null pointer and ends the program; a read behind the
\* elements of a vector ends the program where the read is checked
\* (S.outOfRange = "trap"), and yields any value where it is not.
ReadOutside(S, what, size) ==
    [S EXCEPT !.fault = what, !.stopped = (size = 0 \/ S.outOfRange = "trap")]

\* (faulty variant) a write of the translation also resets the scale
WriteSegmentResetScale(S, channel, sampler, i, currentTime) ==
    LET a == Rat(currentTime - sampler.inputs[i + 1],
                 sampler.inputs[i + 2] - sampler.inputs[i + 1])
        x == ReadOutput(sampler, i)
        y == ReadOutput(sampler, i + 1)
        S1 == IF i + 2 > Len(sampler.outputsVec4)
              THEN ReadOutside(S, "outputsVec4 read out of range", Len(sampler.outputsVec4))
              ELSE S
    IN  IF channel.path \notin Paths THEN S
        ELSE IF S1.stopped THEN S1
        ELSE IF channel.node = Null
        THEN [S1 EXCEPT !.fault = "write through a null Node*", !.stopped = TRUE]
        ELSE CASE channel.path = "translation" ->
                    [S1 EXCEPT !.pool[channel.node].translation = Mix3(x, y, a),
                               !.pool[channel.node].scale = <<Zero, Zero, Zero>>]
               [] channel.path = "rotation" ->
                    [S1 EXCEPT !.pool[channel.node].rotation =
                        Normalize(Slerp(QuatOf(x), QuatOf(y), a))]
               [] channel.path = "scale" ->
                    [S1 EXCEPT !.pool[channel.node].scale = Mix3(x, y, a)]

\* The body of the if over one keyframe segment that contains currentTime:
\* the write to the field the channel names.  S is the state of the tick:
\* the pool, the log, fault, the undefined operation met, if any, and
\* stopped, whether it ended the program.
WriteSegment(S, channel, sampler, i, currentTime) ==
    LET a == Rat(currentTime - sampler.inputs[i + 1],
                 sampler.inputs[i + 2] - sampler.inputs[i + 1])
        x == ReadOutput(sampler, i)
        y == ReadOutput(sampler, i + 1)
        S1 == IF i + 2 > Len(sampler.outputsVec4)
              THEN ReadOutside(S, "outputsVec4 read out of range", Len(sampler.outputsVec4))
              ELSE S
    IN  IF channel.path \notin Paths THEN S
        ELSE IF S1.stopped THEN S1
        ELSE IF channel.node = Null
        THEN [S1 EXCEPT !.fault = "write through a null Node*", !.stopped = TRUE]
        ELSE CASE channel.path = "translation" ->
                    [S1 EXCEPT !.pool[channel.node].translation = Mix3(x, y, a)]
               [] channel.path = "rotation" ->
                    [S1 EXCEPT !.pool[channel.node].rotation =
                        Normalize(Slerp(QuatOf(x), QuatOf(y), a))]
               [] channel.path = "scale" ->
                    [S1 EXCEPT !.pool[channel.node].scale = Mix3(x, y, a)]

\* i < sampler.inputs.size() - 1 in size_t arithmetic: without inputs the
\* right side is 2^64 - 1, above every i
InLoop(i, size) == IF size = 0 THEN TRUE ELSE i < size - 1

\* the loop over the keyframe segments of one channel, from segment i on
RECURSIVE EvalSegments(_, _, _, _, _)
EvalSegments(S, channel, sampler, i, currentTime) ==
    IF ~InLoop(i, Len(sampler.inputs)) \/ S.stopped THEN S
    ELSE IF sampler.interpolation # "LINEAR"
    THEN IF Len(sampler.inputs) = 0
         THEN [S EXCEPT !.fault = "loop without end", !.stopped = TRUE,
                        !.log = Append(@, "This sample only supports linear interpolations")]
         ELSE EvalSegments(
                [S EXCEPT !.log = Append(@, "This sample only supports linear interpolations")],
                channel, sampler, i + 1, currentTime)
    ELSE IF i + 2 > Len(sampler.inputs)
    THEN ReadOutside(S, "inputs read out of range", Len(sampler.inputs))
    ELSE IF currentTime >= sampler.inputs[i + 1] /\ currentTime <= sampler.inputs[i + 2]
    THEN EvalSegments(WriteSegment(S, channel, sampler, i, currentTime),
                      channel, sampler, i + 1, currentTime)
    ELSE EvalSegments(S, channel, sampler, i + 1, currentTime)

\* the loop over the channels of the animation, from channel k on
RECURSIVE EvalChannels(_, _, _, _)
EvalChannels(S, animation, k, currentTime) ==
    IF k > Len(animation.channels) \/ S.stopped THEN S
    ELSE LET channel == animation.channels[k]
         IN  IF channel.samplerIndex + 1 > Len(animation.samplers)
             THEN [S EXCEPT !.fault = "samplers read out of range", !.stopped = TRUE]
             ELSE LET sampler == animation.samplers[channel.samplerIndex + 1]
                  IN  EvalChannels(
                        EvalSegments(S, channel, sampler, 0, currentTime),
                        animation, k + 1, currentTime)

\* (faulty variant) the wrap takes off the span end - start
AdvanceBySpan(animation, deltaTime) ==
    LET t == animation.currentTime + deltaTime
    IN  IF t > animation.end THEN FSub(t, animation.end - animation.start) ELSE t

\* (faulty variant) the clock is never wrapped
AdvanceWithoutWrap(animation, deltaTime) == animation.currentTime + deltaTime

\* the new currentTime of an animation after a step of deltaTime
Advance(animation, deltaTime) ==
    LET t == animation.currentTime + deltaTime
    IN  IF t > animation.end THEN FSub(t, animation.end) ELSE t

\* activeAnimation > static_cast<uint32_t>(animations.size()) - 1 in uint32_t
\* arithmetic: without animations the right side is 2^32 - 1, which no
\* uint32_t is above
NoSuchAnimation(activeAnimation, size) ==
    IF size = 0 THEN FALSE ELSE activeAnimation > size - 1

\* (faulty variant) the matrices are published before the channels are
\* evaluated
UpdateAnimationPublishFirst(S, deltaTime) ==
    IF NoSuchAnimation(S.activeAnimation, Len(S.animations))
    THEN [S EXCEPT !.log = <<"No animation with index">>]
    ELSE IF S.activeAnimation + 1 > Len(S.animations)
    THEN [S EXCEPT !.log = <<>>, !.fault = "animations read out of range",
                   !.stopped = TRUE]
    ELSE LET animation == S.animations[S.activeAnimation + 1]
             currentTime == Advance(animation, deltaTime)
             S1 == [S EXCEPT !.log = <<>>,
                             !.animations[S.activeAnimation + 1].currentTime = currentTime,
                             !.pool = UpdateMeshUniformBuffers(S.pool, S.linearMeshNodes)]
         IN  EvalChannels(S1, animation, 1, currentTime)

\* the call of updateMeshUniformBuffers that ends updateAnimation, which a
\* program that has ended does not reach.  (The set constructor has the
\* model checker evaluate S once.)
PublishUnlessStopped(S) ==
    The({ IF S2.stopped THEN S2
          ELSE [S2 EXCEPT !.pool = UpdateMeshUniformBuffers(S2.pool, S2.linearMeshNodes)]
          : S2 \in {S} })

\* S is the model: pool, linearMeshNodes, animations, activeAnimation, log,
\* fault and stopped, with outOfRange, what a read behind the elements of a
\* vector does in this call.  The log holds what this call prints.
UpdateAnimation(S, deltaTime) ==
    IF NoSuchAnimation(S.activeAnimation, Len(S.animations))
    THEN [S EXCEPT !.log = <<"No animation with index">>]
    ELSE IF S.activeAnimation + 1 > Len(S.animations)
    THEN [S EXCEPT !.log = <<>>, !.fault = "animations read out of range",
                   !.stopped = TRUE]
    ELSE LET animation == S.animations[S.activeAnimation + 1]
             currentTime == Advance(animation, deltaTime)
             S1 == [S EXCEPT !.log = <<>>,
                             !.animations[S.activeAnimation + 1].currentTime = currentTime]
         IN  PublishUnlessStopped(EvalChannels(S1, animation, 1, currentTime))

--------------------------------------------------------------------------
(* The glTF inputs of the model *)

\* the bytes of one index value, little-endian
RECURSIVE EncodeLE(_, _)
EncodeLE(v, width) ==
    IF width = 0 THEN <<>> ELSE <<v % 256>> \o EncodeLE(v \div 256, width - 1)

RECURSIVE EncodeIndices(_, _, _)
EncodeIndices(indices, width, k) ==
    IF k > Len(indices) THEN <<>>
    ELSE EncodeLE(indices[k], width) \o EncodeIndices(indices, width, k + 1)

\* bytes per component in the file (FLOAT, which no index may have, has 4)
FileWidth(componentType) ==
    IF IndexWidth(componentType) = 0 THEN 4 ELSE IndexWidth(componentType)

ComponentTypes == {"UNSIGNED_BYTE", "UNSIGNED_SHORT", "UNSIGNED_INT", "FLOAT"}

\* a mesh primitive with count vertices whose index accessor holds indices
MkPrim(attributes, count, componentType, indices) ==
    [ attributes    |-> attributes,
      count         |-> count,
      positions     |-> [v \in 1..count |-> V3(v, 0, 0)],
      normals       |-> [v \in 1..count |-> V3(0, 0, v)],
      texcoords     |-> [v \in 1..count |-> <<R(v), Zero>>],
      componentType |-> componentType,
      indices       |-> indices,
      indexCount    |-> Len(indices),
      data          |-> EncodeIndices(indices, FileWidth(componentType), 1),
      material      |-> 0 ]

AllAttributes == {"POSITION", "NORMAL", "TEXCOORD_0"}

\* a node record without transform
MkNode(children, mesh) ==
    [ children |-> children, mesh |-> mesh, translation |-> <<>>,
      rotation |-> <<>>, scale |-> <<>>, matrix |-> <<>> ]

MkAsset(scene, inNodes, meshes, anims) ==
    [ fileLoaded |-> TRUE, scene |-> scene, nodes |-> inNodes, meshes |-> meshes,
      animations |-> anims ]

\* an index value that needs every byte of its width
Wide(componentType) ==
    CASE componentType = "UNSIGNED_BYTE" -> 255
      [] componentType = "UNSIGNED_SHORT" -> 256 + 255
      [] OTHER -> 65536 + 256 + 255

IndexSeqs(componentType) ==
    {<<i>> : i \in 0..MaxSrcIndex}
        \cup {<<MaxSrcIndex, 0>>, <<0, Wide(componentType)>>}

FirstPrims ==
    {MkPrim(attrs, 2, ct, <<1, 0>>) :
        attrs \in {AllAttributes, {"POSITION"}, {"NORMAL", "TEXCOORD_0"}},
        ct \in ComponentTypes}

SecondPrims ==
    UNION {{MkPrim(AllAttributes, 1, ct, ix) : ix \in IndexSeqs(ct)} : ct \in ComponentTypes}

\* Geometry: two primitives a and b, on two roots, on a parent and its
\* child, or on one node
GeometryAssets ==
    UNION {{ MkAsset(<<0, 1>>, <<MkNode(<<>>, 0), MkNode(<<>>, 1)>>, <<<<a>>, <<b>>>>, <<>>),
             MkAsset(<<0>>, <<MkNode(<<1>>, 0), MkNode(<<>>, 1)>>, <<<<a>>, <<b>>>>, <<>>),
             MkAsset(<<0>>, <<MkNode(<<>>, 0)>>, <<<<a, b>>>>, <<>>) } :
           <<a, b>> \in FirstPrims \X SecondPrims}

\* keyframe times of the samplers, in steps of the time grid: strictly
\* ascending, as glTF requires
InputOptions == {<<>>, <<0>>, <<1>>, <<0, 2>>, <<1, 2>>, <<0, 1, 3>>}

Times(steps) == [k \in 1..Len(steps) |-> Step * steps[k]]

UnitSpaced(steps) == \A k \in 1..(Len(steps) - 1) : steps[k + 1] = steps[k] + 1

\* The keyframe values of a sampler that drives path.  Rotations a whole
\* step apart alternate between the identity and a half turn about x;
\* rotations further apart keep one direction, with alternating sign and
\* length 2.
OutputsFor(path, steps) ==
    CASE path = "rotation" ->
            [k \in 1..Len(steps) |->
                IF UnitSpaced(steps)
                THEN (IF k % 2 = 1 THEN V4(0, 0, 0, 1) ELSE V4(1, 0, 0, 0))
                ELSE (IF k % 2 = 1 THEN V4(0, 0, 0, 2) ELSE V4(0, 0, 0, -2))]
      [] path = "scale" -> [k \in 1..Len(steps) |-> V3(k, 2 * k, 1)]
      [] OTHER -> [k \in 1..Len(steps) |-> V3(4 * (k - 1), 0, 3 * (k - 1))]

MkSampler(interpolation, path, steps) ==
    [ interpolation |-> interpolation,
      inputs        |-> Times(steps),
      outputType    |-> IF path = "rotation" THEN "VEC4" ELSE "VEC3",
      outputs       |-> OutputsFor(path, steps) ]

MkChannel(path, sampler, node) ==
    [ target_path |-> path, sampler |-> sampler, target_node |-> node ]

\* a one-sampler animation
MkAnimation(interpolation, path, steps, node) ==
    [ samplers |-> <<MkSampler(interpolation, path, steps)>>,
      channels |-> <<MkChannel(path, 0, node)>> ]

\* a root without mesh (node 0) above a child with a mesh (node 1)
PairScene(anims) ==
    MkAsset(<<0>>, <<MkNode(<<1>>, -1), MkNode(<<>>, 0)>>,
            <<<<MkPrim(AllAttributes, 1, "UNSIGNED_SHORT", <<0>>)>>>>, anims)

\* one channel on the child: every keyframe layout, mode and path
SingleChannelAssets ==
    {PairScene(<<MkAnimation(mode, path, steps, 1)>>) :
        mode \in {"LINEAR", "STEP"},
        path \in Paths \cup {"weights"},
        steps \in InputOptions}

\* one channel on the root, or on a node index no node has
TargetAssets ==
    {PairScene(<<MkAnimation("LINEAR", path, <<0, 2>>, node)>>) :
        path \in Paths, node \in {0, 4}}

\* two channels on the child: the first in any mode, with three keyframes
\* or none, the second LINEAR on another field
TwoChannelAssets ==
    {PairScene(<< [ samplers |-> << MkSampler(mode, path, steps),
                                   MkSampler("LINEAR", other, <<0, 2>>) >>,
                    channels |-> << MkChannel(path, 0, 1), MkChannel(other, 1, 1) >> ] >>) :
        mode \in {"LINEAR", "STEP"},
        steps \in {<<0, 1, 3>>, <<>>},
        <<path, other>> \in {<<"translation", "scale">>, <<"scale", "translation">>,
                             <<"rotation", "translation">>}}

\* two animations
TwoAnimationAssets ==
    {PairScene(<< MkAnimation("LINEAR", "translation", <<0, 2>>, 1),
                  MkAnimation("LINEAR", "scale", <<0, 1, 3>>, 0) >>)}

\* transforms of the nodes of a chain: translation only, translation and
\* scale, translation and a half turn about x, a raw matrix that scales and
\* translates, or all four: translation, a third of a turn about (1, 1, 1),
\* scale and raw matrix
Transforms(v) ==
    { [translation |-> v, rotation |-> <<>>, scale |-> <<>>, matrix |-> <<>>],
      [translation |-> v, rotation |-> <<>>, scale |-> V3(2, 1, 3), matrix |-> <<>>],
      [translation |-> v, rotation |-> V4(1, 0, 0, 0), scale |-> <<>>, matrix |-> <<>>],
      [translation |-> <<>>, rotation |-> <<>>, scale |-> <<>>,
       matrix |-> << R(2), Zero, Zero, Zero,   Zero, One, Zero, Zero,
                     Zero, Zero, One, Zero,    v[1], v[2], v[3], One >>],
      [translation |-> v,
       rotation |-> <<Rat(1, 2), Rat(1, 2), Rat(1, 2), Rat(1, 2)>>,
       scale |-> V3(2, 1, 3),
       matrix |-> << R(2), Zero, Zero, Zero,   Zero, One, Zero, Zero,
                     Zero, Zero, One, Zero,    v[1], v[2], v[3], One >>] }

WithTransform(node, t) ==
    [node EXCEPT !.translation = t.translation, !.rotation = t.rotation,
                 !.scale = t.scale, !.matrix = t.matrix]

\* which of its four parts a transform sets
Kind(t) == <<Len(t.translation), Len(t.rotation), Len(t.scale), Len(t.matrix)>>

\* the transforms of the three nodes of a chain: all three of one kind, or
\* at most one of them other than a translation
ChainTransforms ==
    {ts \in Transforms(V3(1, 0, 0)) \X Transforms(V3(0, 1, 0)) \X Transforms(V3(0, 0, 1)) :
        \/ Kind(ts[1]) = Kind(ts[2]) /\ Kind(ts[2]) = Kind(ts[3])
        \/ Cardinality({k \in 1..3 : Kind(ts[k]) = <<3, 0, 0, 0>>}) >= 2}

\* root -> child -> grandchild, the grandchild with the mesh; the animation
\* moves the child
ChainAssets ==
    {MkAsset(<<0>>,
             << WithTransform(MkNode(<<1>>, -1), ts[1]),
                WithTransform(MkNode(<<2>>, -1), ts[2]),
                WithTransform(MkNode(<<>>, 0), ts[3]) >>,
             <<<<MkPrim(AllAttributes, 1, "UNSIGNED_BYTE", <<0>>)>>>>,
             <<MkAnimation("LINEAR", "translation", <<1, 3>>, 1)>>) :
        ts \in ChainTransforms}

\* Two roots, the first (node 3) with the children 1 and 0, node 0 with the
\* child 2; the second root is node 4.  The channel names one of the nodes
\* 0..MaxNodeIndex, the last of which no node has.
ForestAssets ==
    {MkAsset(<<3, 4>>,
             << MkNode(<<2>>, -1), MkNode(<<>>, 0), MkNode(<<>>, 0),
                MkNode(<<1, 0>>, -1), MkNode(<<>>, 0) >>,
             <<<<MkPrim(AllAttributes, 1, "UNSIGNED_BYTE", <<0>>)>>>>,
             <<MkAnimation("LINEAR", "translation", <<0, 2>>, target)>>) :
        target \in 0..MaxNodeIndex}

\* One LINEAR translation channel on the child whose sampler has the
\* keyframe times 0 and 2 and an output accessor that does not match them:
\* a VEC3 accessor of one value, or a SCALAR accessor of two values
MismatchAssets ==
    {PairScene(<< [ samplers |-> << [MkSampler("LINEAR", "translation", <<0, 2>>)
                                        EXCEPT !.outputType = out[1],
                                               !.outputs = out[2]] >>,
                    channels |-> << MkChannel("translation", 0, 1) >> ] >>) :
        out \in { <<"VEC3", <<V3(0, 0, 0)>> >>, <<"SCALAR", <<One, One>> >> }}

\* The short VEC3 sampler of MismatchAssets on a first channel, followed by
\* a LINEAR scale channel whose sampler is complete
MismatchThenScaleAssets ==
    {PairScene(<< [ samplers |-> << [MkSampler("LINEAR", "translation", <<0, 2>>)
                                        EXCEPT !.outputs = <<V3(0, 0, 0)>>],
                                   MkSampler("LINEAR", "scale", <<0, 2>>) >>,
                    channels |-> << MkChannel("translation", 0, 1),
                                    MkChannel("scale", 1, 1) >> ] >>)}

\* One LINEAR translation channel on the child with the keyframe times 0 and
\* 3 and the same value at both: a value whose products with a and 1 - a
\* are rounded, or one with a NaN
RoundingAssets ==
    {PairScene(<< [ samplers |-> << [MkSampler("LINEAR", "translation", <<0, 3>>)
                                        EXCEPT !.outputs = <<v, v>>] >>,
                    channels |-> << MkChannel("translation", 0, 1) >> ] >>) :
        v \in {V3(15, 15, 15), <<NaN, Zero, Zero>>}}

\* a file that cannot be read
Unreadable == [MkAsset(<<>>, <<>>, <<>>, <<>>) EXCEPT !.fileLoaded = FALSE]

Assets ==
    GeometryAssets \cup SingleChannelAssets \cup TargetAssets \cup TwoChannelAssets
        \cup TwoAnimationAssets \cup ChainAssets \cup ForestAssets
        \cup MismatchAssets \cup MismatchThenScaleAssets \cup RoundingAssets
        \cup {Unreadable}

\* activeAnimation is 0 unless the owner of the model selects another one
Selections ==
    (Assets \X {0}) \cup ((TwoAnimationAssets \cup TargetAssets) \X {1, 2})

--------------------------------------------------------------------------
(* The state *)

VARIABLES
    input,            \* the glTF file handed to loadglTFFile
    phase,            \* "start", "ready" after prepare(), "exited"
    pool,             \* every Node allocated, by address
    nodes,            \* VulkanglTFModel::nodes, the roots
    linearMeshNodes,  \* VulkanglTFModel::linearMeshNodes
    vertexBuffer,     \* the vertex buffer of the model
    indexBuffer,      \* the index buffer of the model
    animations,       \* VulkanglTFModel::animations
    activeAnimation,  \* VulkanglTFModel::activeAnimation
    paused,           \* VulkanExampleBase::paused
    log,              \* what the last call of prepare() or render() printed
    fault,            \* the undefined operation the program met, or "none"
    stopped,          \* whether that operation ended the program
    submitted,        \* the per-node matrices the last submitted frame read
    last              \* the last call of render(), with the state before it

vars == <<input, phase, pool, nodes, linearMeshNodes, vertexBuffer, indexBuffer,
          animations, activeAnimation, paused, log, fault, stopped, submitted, last>>

NoCall == [op |-> "none", ticked |-> FALSE, deltaTime |-> 0, pool |-> <<>>,
           animations |-> <<>>]

Init ==
    /\ \E sel \in Selections : input = sel[1] /\ activeAnimation = sel[2]
    /\ phase = "start"
    /\ pool = <<>>
    /\ nodes = <<>>
    /\ linearMeshNodes = <<>>
    /\ vertexBuffer = <<>>
    /\ indexBuffer = <<>>
    /\ animations = <<>>
    /\ paused = FALSE
    /\ log = <<>>
    /\ fault = "none"
    /\ stopped = FALSE
    /\ submitted = <<>>
    /\ last = NoCall

\* VulkanExample::prepare: loadAssets, which loads the file, and
\* prepareUniformBuffers
Prepare ==
    /\ phase = "start"
    /\ IF input.fileLoaded
       THEN \E L \in {LoadglTFFile(input)} :
                /\ phase' = "ready"
                /\ pool' = PrepareMeshUniformBuffers(L.pool, L.linearMeshNodes)
                /\ nodes' = L.nodes
                /\ linearMeshNodes' = L.linearMeshNodes
                /\ vertexBuffer' = L.vertexBuffer
                /\ indexBuffer' = L.indexBuffer
                /\ animations' = L.animations
                /\ log' = L.log
       ELSE /\ phase' = "exited"
            /\ log' = <<"Could not open the glTF file.">>
            /\ UNCHANGED <<pool, nodes, linearMeshNodes, vertexBuffer, indexBuffer,
                           animations>>
    /\ UNCHANGED <<input, activeAnimation, paused, fault, stopped, submitted, last>>

\* what a read behind the elements of a vector does: the program ends (a
\* build that checks operator[]), or the read yields any value
OutOfRangeReads == {"trap", "any value"}

\* the model as updateAnimation sees it
Model(outOfRange) ==
    [ pool |-> pool, linearMeshNodes |-> linearMeshNodes, animations |-> animations,
      activeAnimation |-> activeAnimation, log |-> log, fault |-> fault,
      stopped |-> stopped, outOfRange |-> outOfRange ]

\* what one call of updateAnimation can make of the model.  What a read
\* behind the elements of a vector does matters only to a call that makes
\* such a read, which is a call that ends the program when the read traps.
Ticks(deltaTime) ==
    UNION { IF T.stopped
            THEN {UpdateAnimation(Model(outOfRange), deltaTime) :
                    outOfRange \in OutOfRangeReads}
            ELSE {T}
            : T \in {UpdateAnimation(Model("trap"), deltaTime)} }

\* the playback clocks stay within the time the model follows
InTime(S) ==
    \A i \in 1..Len(S.animations) : S.animations[i].currentTime <= MaxTime * Step

\* VulkanExample::render: the frame is submitted, then, unless paused, the
\* animation is advanced by frameTimer
Render(frameTimer) ==
    /\ phase = "ready"
    /\ ~stopped
    /\ submitted' = [k \in 1..Len(linearMeshNodes) |-> pool[linearMeshNodes[k]].uniform]
    /\ IF paused
       THEN /\ last' = [op |-> "render", ticked |-> FALSE, deltaTime |-> 0,
                        pool |-> pool, animations |-> animations]
            /\ log' = <<>>
            /\ UNCHANGED <<pool, animations, fault, stopped>>
       ELSE \E S \in Ticks(frameTimer) :
                /\ InTime(S)
                /\ pool' = S.pool
                /\ animations' = S.animations
                /\ log' = S.log
                /\ fault' = S.fault
                /\ stopped' = S.stopped
                /\ last' = [op |-> "render", ticked |-> TRUE, deltaTime |-> frameTimer,
                            pool |-> pool, animations |-> animations]
    /\ UNCHANGED <<input, phase, nodes, linearMeshNodes, vertexBuffer, indexBuffer,
                   activeAnimation, paused>>

\* the user pauses or resumes the example
TogglePause ==
    /\ phase = "ready"
    /\ ~stopped
    /\ paused' = ~paused
    /\ UNCHANGED <<input, phase, pool, nodes, linearMeshNodes, vertexBuffer, indexBuffer,
                   animations, activeAnimation, log, fault, stopped, submitted, last>>

Next ==
    \/ Prepare
    \/ \E k \in 0..MaxDelta : Render(Step * k)
    \/ TogglePause

Spec == Init /\ [][Next]_vars

--------------------------------------------------------------------------
(* Vocabulary of the properties *)

Loaded == phase = "ready"

\* the last call of render() ran updateAnimation
Ticked == last.op = "render" /\ last.ticked

\* activeAnimation is an index into the animation list
ValidSelection == activeAnimation < Len(animations)

\* the program has met no undefined operation and no endless loop so far
Completed == fault = "none"

\* every call of updateAnimation so far returned: the program has not ended
Returned == ~stopped

\* the glTF primitive that primitive k of node n was loaded from
SourcePrim(n, k) == input.meshes[input.nodes[pool[n].index + 1].mesh + 1][k]

\* the field of a node that a channel path names
Field(node, path) ==
    CASE path = "translation" -> node.translation
      [] path = "scale" -> node.scale
      [] path = "rotation" -> node.rotation

\* the first three components of a keyframe value
Xyz(v) == <<v[1], v[2], v[3]>>

\* segment i (from 1) of a sampler holds time t
InSegment(sampler, i, t) == sampler.inputs[i] <= t /\ t <= sampler.inputs[i + 1]

Segments(sampler) == 1..(Len(sampler.inputs) - 1)

--------------------------------------------------------------------------
(* C1: index offsetting *)

\* C1: every primitive loadNode recorded has, at each place of its slice of
\* the index buffer, the source index plus vertexStart, the length of the
\* vertex buffer before the primitive's vertices were appended (where its
\* own vertices now start); taking vertexStart off gives the source index.
C1_IndexOffset ==
    Loaded =>
        \A n \in 1..Len(pool) : \A k \in 1..Len(pool[n].primitives) :
            LET p == pool[n].primitives[k]
                src == SourcePrim(n, k)
            IN  /\ src.componentType \in {"UNSIGNED_BYTE", "UNSIGNED_SHORT", "UNSIGNED_INT"}
                /\ p.indexCount = Len(src.indices)
                /\ p.firstIndex + p.indexCount <= Len(indexBuffer)
                /\ \A j \in 1..p.indexCount :
                    /\ indexBuffer[p.firstIndex + j] = src.indices[j] + p.vertexStart
                    /\ indexBuffer[p.firstIndex + j] - p.vertexStart = src.indices[j]
                /\ "POSITION" \in src.attributes =>
                    \A v \in 1..src.count :
                        vertexBuffer[p.vertexStart + v].pos = src.positions[v]

\* a primitive loaded behind other vertices whose indices need two or more bytes
C1_Witness ==
    /\ Loaded
    /\ \E n \in 1..Len(pool) : \E k \in 1..Len(pool[n].primitives) :
        /\ pool[n].primitives[k].vertexStart > 0
        /\ \E j \in 1..Len(SourcePrim(n, k).indices) : SourcePrim(n, k).indices[j] > 255
        /\ SourcePrim(n, k).componentType = "UNSIGNED_INT"

--------------------------------------------------------------------------
(* C2: the world matrix of a node *)

\* the nodes from the root-most ancestor of n down to n
RECURSIVE PathTo(_, _)
PathTo(p, n) == IF p[n].parent = Null THEN <<n>> ELSE Append(PathTo(p, p[n].parent), n)

\* local(path[k]) * (local(path[k + 1]) * (... * local(path[Len(path)]))):
\* the product along the path, each float product taken with the product of
\* the matrices below it
RECURSIVE ProductOfLocals(_, _, _)
ProductOfLocals(p, path, k) ==
    IF k = Len(path) THEN GetLocalMatrix(p[path[k]])
    ELSE MatMul(GetLocalMatrix(p[path[k]]), ProductOfLocals(p, path, k + 1))

\* a node that only translates
OnlyTranslates(node) ==
    /\ QuatMat(node.rotation) = Identity4
    /\ node.scale = <<One, One, One>>
    /\ node.matrix = Identity4

Origin == <<Zero, Zero, Zero>>

\* C2: getNodeMatrix(node) is the product of the local matrices from the
\* root-most ancestor down to the node, at any depth, and every matrix
\* updateMeshUniformBuffers wrote is that product; along a chain of three
\* nodes that only translate, by (1,0,0), (0,1,0) and (0,0,1), it maps the
\* origin to (1,1,1).
C2_NodeMatrix ==
    Loaded =>
        \A n \in 1..Len(pool) : \A world \in {GetNodeMatrix(pool, n)} :
            LET path == PathTo(pool, n)
            IN  /\ world = ProductOfLocals(pool, path, 1)
                /\ (Ticked /\ Returned /\ pool[n].uniform.written)
                        => pool[n].uniform.matrix = world
                /\ (/\ Len(path) = 3
                    /\ \A k \in 1..3 : OnlyTranslates(pool[path[k]])
                    /\ pool[path[1]].translation = V3(1, 0, 0)
                    /\ pool[path[2]].translation = V3(0, 1, 0)
                    /\ pool[path[3]].translation = V3(0, 0, 1))
                        => Apply(world, Origin) = V3(1, 1, 1)

\* the grandchild of the chain (1,0,0), (0,1,0), (0,0,1) with its matrix
\* written, which maps the origin to (1,1,1)
C2_Witness ==
    /\ Ticked /\ Completed
    /\ \E n \in 1..Len(pool) :
        LET path == PathTo(pool, n)
        IN  /\ Len(path) = 3
            /\ \A k \in 1..3 : OnlyTranslates(pool[path[k]])
            /\ pool[path[1]].translation = V3(1, 0, 0)
            /\ pool[path[2]].translation = V3(0, 1, 0)
            /\ pool[path[3]].translation = V3(0, 0, 1)
            /\ pool[n].uniform.written
            /\ Apply(pool[n].uniform.matrix, Origin) = V3(1, 1, 1)

--------------------------------------------------------------------------
(* C3: the playback clock *)

\* C3: a tick on a valid active animation with clock c and step dt leaves
\* the clock at c + dt when c + dt <= end and at the float c + dt - end
\* otherwise (end taken off once).
C3_Clock ==
    (Ticked /\ ValidSelection) =>
        LET c == last.animations[activeAnimation + 1].currentTime
            dt == last.deltaTime
            end == animations[activeAnimation + 1].end
            new == animations[activeAnimation + 1].currentTime
        IN  /\ c + dt <= end => new = c + dt
            /\ c + dt > end => new = FSub(c + dt, end)
            /\ (c + dt > end /\ end >= Step) => new = c + dt - end

\* keyframe times [0, 1], end = 1, c = 0 and dt = 1.5, in units of two grid
\* steps: the clock is at 0.5
C3_Witness ==
    /\ Ticked /\ ValidSelection
    /\ animations[activeAnimation + 1].samplers[1].inputs = <<0, 2 * Step>>
    /\ animations[activeAnimation + 1].end = 2 * Step
    /\ last.animations[activeAnimation + 1].currentTime = 0
    /\ last.deltaTime = 3 * Step
    /\ animations[activeAnimation + 1].currentTime = Step

--------------------------------------------------------------------------
(* C4: linear interpolation of translation and scale *)

StrictlyAscending(inputs) == \A i \in 1..(Len(inputs) - 1) : inputs[i] < inputs[i + 1]

\* channel k is the last channel of the animation that drives its field
LastWriter(animation, k) ==
    \A j \in (k + 1)..Len(animation.channels) :
        ~(/\ animation.channels[j].node = animation.channels[k].node
          /\ animation.channels[j].path = animation.channels[k].path)

RMin(p, q) == IF RLeq(p, q) THEN p ELSE q
RMax(p, q) == IF RLeq(p, q) THEN q ELSE p

\* x + a * (y - x), component by component
Lerp3(x, y, a) ==
    <<RAdd(x[1], RMul(a, RSub(y[1], x[1]))), RAdd(x[2], RMul(a, RSub(y[2], x[2]))),
      RAdd(x[3], RMul(a, RSub(y[3], x[3])))>>

\* the three components of v are finite floats
Finite3(v) == IsFinite(v[1]) /\ IsFinite(v[2]) /\ IsFinite(v[3])

\* C4: after a tick that returned with the clock at t, the field of a LINEAR
\* translation or scale channel with strictly ascending keyframe times and
\* finite keyframe values is out[i] + a * (out[i+1] - out[i]) for every
\* segment i that holds t, with a = (t - t_i) / (t_{i+1} - t_i); it is
\* out[k] at a keyframe time t_k, and it lies between the two values of the
\* segment.
C4_Lerp ==
    (Ticked /\ ValidSelection /\ Completed) =>
        LET animation == animations[activeAnimation + 1]
            t == animation.currentTime
        IN  \A k \in 1..Len(animation.channels) :
                LET channel == animation.channels[k]
                    sampler == animation.samplers[channel.samplerIndex + 1]
                IN  (/\ sampler.interpolation = "LINEAR"
                     /\ channel.path \in {"translation", "scale"}
                     /\ StrictlyAscending(sampler.inputs)
                     /\ LastWriter(animation, k)) =>
                        \A i \in Segments(sampler) :
                            (/\ InSegment(sampler, i, t)
                             /\ Finite3(sampler.outputsVec4[i])
                             /\ Finite3(sampler.outputsVec4[i + 1])) =>
                                LET x == Xyz(sampler.outputsVec4[i])
                                    y == Xyz(sampler.outputsVec4[i + 1])
                                    a == Rat(t - sampler.inputs[i],
                                             sampler.inputs[i + 1] - sampler.inputs[i])
                                    f == Field(pool[channel.node], channel.path)
                                IN  /\ f = Lerp3(x, y, a)
                                    /\ t = sampler.inputs[i] => f = x
                                    /\ t = sampler.inputs[i + 1] => f = y
                                    /\ \A m \in 1..3 :
                                        /\ RLeq(RMin(x[m], y[m]), f[m])
                                        /\ RLeq(f[m], RMax(x[m], y[m]))

--------------------------------------------------------------------------
(* C5: a channel without a segment for the clock *)

NoSegment(sampler, t) == \A i \in Segments(sampler) : ~InSegment(sampler, i, t)

\* C5: in a tick where a channel finds no keyframe segment that holds the
\* clock (the clock before the first keyframe or after the last, or a
\* sampler of 0 or 1 keyframes) the field of the channel keeps its value
\* and the tick completes normally.
C5_NoSegment ==
    (Ticked /\ ValidSelection) =>
        LET animation == animations[activeAnimation + 1]
        IN  \A k \in 1..Len(animation.channels) :
                LET channel == animation.channels[k]
                    sampler == animation.samplers[channel.samplerIndex + 1]
                IN  (/\ channel.path \in Paths
                     /\ channel.node # Null
                     /\ NoSegment(sampler, animation.currentTime)) =>
                        /\ Completed
                        /\ Field(pool[channel.node], channel.path)
                                = Field(last.pool[channel.node], channel.path)

--------------------------------------------------------------------------
(* C6: a selector outside the animation list *)

\* C6: when activeAnimation is no index into the animation list (also with
\* no animations and the selector 0), updateAnimation reports it, reads no
\* animation and changes neither a clock nor a node.
C6_NoSuchAnimation ==
    (Ticked /\ ~ValidSelection) =>
        /\ log = <<"No animation with index">>
        /\ Completed
        /\ animations = last.animations
        /\ pool = last.pool

--------------------------------------------------------------------------
(* C7: channels that are not LINEAR *)

\* the active animation has a channel whose sampler is not LINEAR
HasNonLinear(animation) ==
    \E k \in 1..Len(animation.channels) :
        animation.samplers[animation.channels[k].samplerIndex + 1].interpolation # "LINEAR"

\* C7: in any tick a channel whose sampler is not LINEAR leaves its field as
\* it was, and every LINEAR translation or scale channel of the same
\* animation, also one on the same node, has its interpolated value written.
\* (A tick that ends in the keyframe loop of a channel never evaluates the
\* channels behind it.)
C7_NonLinear ==
    (Ticked /\ ValidSelection) =>
        LET animation == animations[activeAnimation + 1]
            t == animation.currentTime
        IN  \A k \in 1..Len(animation.channels) :
                LET channel == animation.channels[k]
                    sampler == animation.samplers[channel.samplerIndex + 1]
                IN  /\ (/\ sampler.interpolation # "LINEAR"
                        /\ channel.path \in Paths
                        /\ channel.node # Null) =>
                            Field(pool[channel.node], channel.path)
                                = Field(last.pool[channel.node], channel.path)
                    /\ (/\ sampler.interpolation = "LINEAR"
                        /\ HasNonLinear(animation)
                        /\ channel.path \in {"translation", "scale"}
                        /\ LastWriter(animation, k)) =>
                            \A i \in Segments(sampler) :
                                InSegment(sampler, i, t) =>
                                    Field(pool[channel.node], channel.path)
                                        = Mix3(Xyz(sampler.outputsVec4[i]),
                                               Xyz(sampler.outputsVec4[i + 1]),
                                               Rat(t - sampler.inputs[i],
                                                   sampler.inputs[i + 1] - sampler.inputs[i]))

--------------------------------------------------------------------------
(* C8, C9, C10: inputs the load has to refuse *)

Prepared == phase # "start"

\* the load failed as a whole: nothing of the asset is registered
LoadFailed ==
    /\ phase = "exited"
    /\ nodes = <<>> /\ linearMeshNodes = <<>>
    /\ vertexBuffer = <<>> /\ indexBuffer = <<>>
    /\ animations = <<>>

InputPrims == {<<m, k>> \in (1..Len(input.meshes)) \X (1..2) : k <= Len(input.meshes[m])}

\* C8: a primitive whose index accessor is not 8-, 16- or 32-bit unsigned
\* makes the load fail as a whole; nothing of the asset stays registered.
C8_IndexTypeFatal ==
    (Prepared /\ \E mk \in InputPrims :
                    IndexWidth(input.meshes[mk[1]][mk[2]].componentType) = 0)
        => LoadFailed

\* C9: a primitive without POSITION makes the load fail, and no Primitive is
\* recorded for it.
C9_PositionRequired ==
    /\ (Prepared /\ \E mk \in InputPrims :
                        "POSITION" \notin input.meshes[mk[1]][mk[2]].attributes)
            => LoadFailed
    /\ \A n \in 1..Len(pool) : \A k \in 1..Len(pool[n].primitives) :
            "POSITION" \in SourcePrim(n, k).attributes

\* C10: a channel whose target node index no node of the tree has makes the
\* load fail; after a load no channel holds a null target, and no tick
\* writes through one.
C10_TargetsResolved ==
    /\ (Prepared /\ \E a \in 1..Len(input.animations) :
                        \E c \in 1..Len(input.animations[a].channels) :
                            input.animations[a].channels[c].target_node + 1
                                > Len(input.nodes))
            => LoadFailed
    /\ \A a \in 1..Len(animations) : \A c \in 1..Len(animations[a].channels) :
            animations[a].channels[c].node # Null
    /\ fault # "write through a null Node*"

--------------------------------------------------------------------------
(* C11: the normal of a vertex without NORMAL data *)

\* C11: every vertex loaded from a primitive without NORMAL has the normal
\* (0, 0, 0); the zero default does not become NaN.
C11_ZeroNormal ==
    Loaded =>
        \A n \in 1..Len(pool) : \A k \in 1..Len(pool[n].primitives) :
            ("NORMAL" \notin SourcePrim(n, k).attributes
                /\ "POSITION" \in SourcePrim(n, k).attributes) =>
                \A v \in 1..SourcePrim(n, k).count :
                    vertexBuffer[pool[n].primitives[k].vertexStart + v].normal
                        = <<Zero, Zero, Zero>>

--------------------------------------------------------------------------
(* C12: the time range of an animation *)

\* every keyframe time of every sampler of a loaded animation
InputTimes(animation) ==
    {animation.samplers[j].inputs[k] :
        <<j, k>> \in {jk \in (1..Len(animation.samplers)) \X (1..(MaxTime + 1)) :
                        jk[2] <= Len(animation.samplers[jk[1]].inputs)}}

\* the keyframe times a file can hold, as far as the model follows them
PossibleTimes == {Step * k : k \in 0..MaxTime}

\* C12: after loadAnimations start is the least and end the greatest
\* keyframe time of the animation; without keyframes start is above and end
\* is below every possible keyframe time.
C12_TimeRange ==
    Loaded =>
        \A a \in 1..Len(animations) :
            LET T == InputTimes(animations[a])
            IN  IF T # {}
                THEN /\ \A t \in T : animations[a].start <= t /\ t <= animations[a].end
                     /\ animations[a].start \in T
                     /\ animations[a].end \in T
                ELSE \A t \in PossibleTimes :
                        animations[a].start > t /\ animations[a].end < t

--------------------------------------------------------------------------
(* C13: the local matrix of a node *)

Cross(u, v) ==
    << RSub(RMul(u[2], v[3]), RMul(u[3], v[2])),
       RSub(RMul(u[3], v[1]), RMul(u[1], v[3])),
       RSub(RMul(u[1], v[2]), RMul(u[2], v[1])) >>
Add3(u, v) == <<RAdd(u[1], v[1]), RAdd(u[2], v[2]), RAdd(u[3], v[3])>>
Times3(c, v) == <<RMul(c, v[1]), RMul(c, v[2]), RMul(c, v[3])>>

\* the point p turned by the quaternion q: p + 2 w (u x p) + 2 u x (u x p)
\* with u the vector part of q
Rotated(q, p) ==
    LET u == <<q.x, q.y, q.z>>
    IN  Add3(p, Add3(Times3(RMul(R(2), q.w), Cross(u, p)),
                     Times3(R(2), Cross(u, Cross(u, p)))))

\* the point p taken through rawMatrix, then scale, then rotation, then
\* translation of a node
Composed(node, p) ==
    LET m == Apply(node.matrix, p)
        sc == <<RMul(node.scale[1], m[1]), RMul(node.scale[2], m[2]),
                RMul(node.scale[3], m[3])>>
    IN  Add3(node.translation, Rotated(node.rotation, sc))

\* the origin and the three unit points
Frame == {V3(0, 0, 0), V3(1, 0, 0), V3(0, 1, 0), V3(0, 0, 1)}

\* some channel of some animation has node n as its target
Targeted(n) ==
    \E a \in 1..Len(animations) : \E c \in 1..Len(animations[a].channels) :
        animations[a].channels[c].node = n

\* the node record has neither translation, rotation, scale nor matrix
PlainRecord(rec) ==
    rec.translation = <<>> /\ rec.rotation = <<>> /\ rec.scale = <<>> /\ rec.matrix = <<>>

\* translation, rotation, scale and raw matrix of the node are finite floats
FiniteFields(node) ==
    /\ \A k \in 1..3 : IsFinite(node.translation[k]) /\ IsFinite(node.scale[k])
    /\ IsFinite(node.rotation.x) /\ IsFinite(node.rotation.y)
    /\ IsFinite(node.rotation.z) /\ IsFinite(node.rotation.w)
    /\ \A r \in 1..4 : \A c \in 1..4 : IsFinite(node.matrix[r][c])

\* C13: getLocalMatrix of every node, with the field values it has now, is
\* the float product ((translate(translation) * rotate(rotation)) *
\* scale(scale)) * rawMatrix.  Where the four are finite (the products of
\* the model's transforms are exact in float) it takes a point through the
\* raw matrix, the scale, the rotation and the translation in this order,
\* and its last row is that of the raw matrix.  For a node loaded from a
\* record without any of the four, and that no channel has written, it is
\* the identity.
C13_LocalMatrix ==
    Loaded =>
        \A n \in 1..Len(pool) : \A local \in {GetLocalMatrix(pool[n])} :
            /\ local = MatMul(MatMul(MatMul(Translate(Identity4, pool[n].translation),
                                            QuatMat(pool[n].rotation)),
                                     Scale(Identity4, pool[n].scale)),
                              pool[n].matrix)
            /\ FiniteFields(pool[n]) =>
                    /\ \A p \in Frame : Apply(local, p) = Composed(pool[n], p)
                    /\ local[4] = pool[n].matrix[4]
            /\ (PlainRecord(input.nodes[pool[n].index + 1])
                    /\ (~Targeted(n) \/ last = NoCall)) =>
                        local = Identity4

\* after a tick that moved it, a node with rotation, scale and raw matrix
\* from its record, whose local matrix is not the identity
C13_Witness ==
    /\ Ticked /\ Completed
    /\ \E n \in 1..Len(pool) :
        /\ pool[n].translation # last.pool[n].translation
        /\ pool[n].rotation = Quat(Rat(1, 2), Rat(1, 2), Rat(1, 2), Rat(1, 2))
        /\ pool[n].scale = V3(2, 1, 3)
        /\ pool[n].matrix # Identity4
        /\ GetLocalMatrix(pool[n]) # Identity4

--------------------------------------------------------------------------
(* C14: the magnitude of rotations *)

\* C14: after the load and after every tick the rotation of every node has
\* magnitude 1.
C14_UnitRotation ==
    Loaded => \A n \in 1..Len(pool) : QDot(pool[n].rotation, pool[n].rotation) = One

--------------------------------------------------------------------------
(* C15: the slices of the index buffer *)

\* every Primitive loadNode recorded, as node and place in the node's list
AllPrims ==
    {nk \in (1..Len(pool)) \X (1..2) : nk[2] <= Len(pool[nk[1]].primitives)}

Prim(nk) == pool[nk[1]].primitives[nk[2]]

\* the places of the index buffer [firstIndex, firstIndex + indexCount)
Slice(p) == (p.firstIndex + 1)..(p.firstIndex + p.indexCount)

\* C15: each recorded Primitive has indexCount equal to the number of
\* indices appended for it and firstIndex equal to the length the index
\* buffer had before them, the number of indices of the primitives recorded
\* before it; the slices of all recorded primitives are pairwise disjoint
\* and together are the whole index buffer.
C15_Slices ==
    Loaded =>
        /\ \A nk \in AllPrims :
            /\ Prim(nk).indexCount = Len(SourcePrim(nk[1], nk[2]).indices)
            /\ Prim(nk).firstIndex =
                Cardinality(UNION {Slice(Prim(q)) :
                    q \in {r \in AllPrims : Prim(r).firstIndex < Prim(nk).firstIndex}})
        /\ \A nk \in AllPrims : \A q \in AllPrims :
                nk # q => Slice(Prim(nk)) \cap Slice(Prim(q)) = {}
        /\ UNION {Slice(Prim(nk)) : nk \in AllPrims} = 1..Len(indexBuffer)

\* two primitives with two indices each, on two nodes, the second with its
\* slice behind the first
C15_Witness ==
    /\ Loaded
    /\ \E nk \in AllPrims : \E q \in AllPrims :
        /\ nk[1] # q[1]
        /\ Prim(nk).firstIndex = 0 /\ Prim(nk).indexCount = 2
        /\ Prim(q).firstIndex = 2 /\ Prim(q).indexCount = 2
    /\ Len(indexBuffer) = 4

--------------------------------------------------------------------------
(* C16: the matrices published by a tick *)

\* C16: at the end of a tick on a valid active animation the matrix
\* published for every renderable node is its world matrix computed from
\* the translation, rotation and scale that the node and all its ancestors
\* have after the tick, all channels applied.
C16_Published ==
    (Ticked /\ ValidSelection /\ Returned) =>
        \A k \in 1..Len(linearMeshNodes) :
            LET n == linearMeshNodes[k]
                path == PathTo(pool, n)
            IN  /\ pool[n].uniform.written
                /\ pool[n].uniform.matrix = ProductOfLocals(pool, path, 1)

\* a tick that moved an ancestor without mesh and published another matrix
\* for the renderable node below it
C16_Witness ==
    /\ Ticked /\ ValidSelection /\ Completed
    /\ last.pool[linearMeshNodes[1]].uniform.written
    /\ \E n \in 1..Len(pool) :
        /\ pool[n].primitives = <<>>
        /\ pool[n].translation # last.pool[n].translation
        /\ pool[linearMeshNodes[1]].parent = n
        /\ pool[linearMeshNodes[1]].uniform.matrix
                # last.pool[linearMeshNodes[1]].uniform.matrix

--------------------------------------------------------------------------
(* C17: what a submitted frame reads *)

\* C17: in every rendered frame the tick and the refresh of the per-node
\* matrices come before the frame is submitted: every submitted frame, the
\* first one and those rendered while paused included, reads per-node
\* matrices that were written, with the world matrices the nodes have in
\* that frame.
C17_FrameReadsCurrent ==
    last.op = "render" =>
        \A k \in 1..Len(linearMeshNodes) :
            /\ submitted[k].written
            /\ submitted[k].matrix = GetNodeMatrix(pool, linearMeshNodes[k])

--------------------------------------------------------------------------
(* C18: what a tick leaves alone *)

\* a channel of the animation writes the field path of node n
Writes(animation, n, path) ==
    \E c \in 1..Len(animation.channels) :
        animation.channels[c].node = n /\ animation.channels[c].path = path

\* C18: a tick on a valid active animation changes only currentTime of the
\* active animation, the fields that the channels of the active animation
\* name on their target nodes, and the published matrices.  Parent,
\* children, raw matrix, index and primitives of every node, the fields no
\* channel names, untargeted nodes, every sampler and channel, the time
\* range and the clocks of the other animations stay as they were.
C18_Frame ==
    (Ticked /\ ValidSelection /\ Returned) =>
        /\ Len(pool) = Len(last.pool)
        /\ \A n \in 1..Len(pool) :
            /\ pool[n].parent = last.pool[n].parent
            /\ pool[n].children = last.pool[n].children
            /\ pool[n].matrix = last.pool[n].matrix
            /\ pool[n].index = last.pool[n].index
            /\ pool[n].primitives = last.pool[n].primitives
            /\ pool[n].uniform.mapped = last.pool[n].uniform.mapped
            /\ \A path \in Paths :
                ~Writes(animations[activeAnimation + 1], n, path) =>
                    Field(pool[n], path) = Field(last.pool[n], path)
        /\ Len(animations) = Len(last.animations)
        /\ \A a \in 1..Len(animations) :
            /\ animations[a].samplers = last.animations[a].samplers
            /\ animations[a].channels = last.animations[a].channels
            /\ animations[a].start = last.animations[a].start
            /\ animations[a].end = last.animations[a].end
            /\ a # activeAnimation + 1 =>
                    animations[a].currentTime = last.animations[a].currentTime

\* a tick with two animations loaded that moved the target of the active
\* one, the other animation having a channel on another node
C18_Witness ==
    /\ Ticked /\ ValidSelection /\ Completed
    /\ Len(animations) = 2
    /\ animations[activeAnimation + 1].currentTime
            # last.animations[activeAnimation + 1].currentTime
    /\ \E n \in 1..Len(pool) : \E m \in 1..Len(pool) :
        /\ n # m
        /\ Field(pool[n], animations[activeAnimation + 1].channels[1].path)
            # Field(last.pool[n], animations[activeAnimation + 1].channels[1].path)
        /\ animations[activeAnimation + 1].channels[1].node = n
        /\ animations[2 - activeAnimation].channels[1].node = m

--------------------------------------------------------------------------
(* C19: the target node of a channel *)

\* node n is in the built forest: its ancestors lead to a node of the root
\* list, each one listed among the children of the one above it
InForest(n) ==
    LET path == PathTo(pool, n)
    IN  /\ \E r \in 1..Len(nodes) : nodes[r] = path[1]
        /\ \A k \in 2..Len(path) :
            \E c \in 1..Len(pool[path[k - 1]].children) :
                pool[path[k - 1]].children[c] = path[k]

\* some node of the built forest has the index i
IndexInForest(i) == \E n \in 1..Len(pool) : InForest(n) /\ pool[n].index = i

\* C19: nodeFromIndex(i) returns a node of the built forest whose index is
\* i when there is one, under any root, at any depth and in any place among
\* its siblings, and null when there is none; after the load the target of
\* every channel is the node with the target index the channel declares,
\* and a tick leaves the targets as they are.
C19_NodeFromIndex ==
    Loaded =>
        /\ \A i \in 0..MaxNodeIndex :
            LET found == NodeFromIndex(pool, nodes, i)
            IN  IF IndexInForest(i)
                THEN found # Null /\ InForest(found) /\ pool[found].index = i
                ELSE found = Null
        /\ \A a \in 1..Len(animations) : \A c \in 1..Len(animations[a].channels) :
            LET declared == input.animations[a].channels[c].target_node
                node == animations[a].channels[c].node
            IN  IF IndexInForest(declared)
                THEN node # Null /\ InForest(node) /\ pool[node].index = declared
                ELSE node = Null
        /\ Ticked => \A a \in 1..Len(animations) :
                        animations[a].channels = last.animations[a].channels

\* after a tick, a channel whose target is the grandchild that is the only
\* child of the second child of the first of two roots
C19_Witness ==
    /\ Ticked /\ Completed
    /\ Len(nodes) = 2
    /\ LET node == animations[1].channels[1].node
       IN  /\ node # Null
           /\ pool[node].index = input.animations[1].channels[1].target_node
           /\ Len(PathTo(pool, node)) = 3
           /\ PathTo(pool, node)[1] = nodes[1]
           /\ pool[nodes[1]].children[2] = PathTo(pool, node)[2]
           /\ pool[node].index + 1 # node

--------------------------------------------------------------------------
(* C20: the list of renderable nodes *)

\* the places of linearMeshNodes that hold node n
PlacesOf(n) == {k \in 1..Len(linearMeshNodes) : linearMeshNodes[k] = n}

\* C20: after the load linearMeshNodes holds the nodes of the built tree
\* that have a primitive, each once, and no other node; every node of the
\* list is reached from the root list through child links.
C20_Renderables ==
    Loaded =>
        /\ \A n \in 1..Len(pool) :
            Cardinality(PlacesOf(n))
                = IF InForest(n) /\ pool[n].primitives # <<>> THEN 1 ELSE 0
        /\ \A k \in 1..Len(linearMeshNodes) : InForest(linearMeshNodes[k])

--------------------------------------------------------------------------
(* C21: how often a degraded condition is reported *)

\* how often message m stands in a log
Count(m, seq) == Cardinality({k \in 1..Len(seq) : seq[k] = m})

\* what updateAnimation prints for a sampler that is not LINEAR and for a
\* selector outside the animation list
DegradedReports ==
    {"This sample only supports linear interpolations", "No animation with index"}

\* a step in which render() runs updateAnimation
TickStep == phase = "ready" /\ paused' = paused /\ last'.op = "render" /\ last'.ticked

\* C21: a degraded condition of a frame is reported once: a tick prints its
\* message at most once, not once for every keyframe segment, and a tick
\* that follows a report of the condition does not print it again.
C21_ReportedOnce ==
    [][TickStep =>
        \A m \in DegradedReports :
            Count(m, log') <= (IF Count(m, log) > 0 THEN 0 ELSE 1)]_vars

--------------------------------------------------------------------------
(* C22 *)

ReadsOutOfRange ==
    {"samplers read out of range", "inputs read out of range",
     "outputsVec4 read out of range"}

\* C22: a tick on an animation made by loadAnimations never reads outside
\* its data: the sampler index of every channel is below the number of
\* samplers, and no position of inputs or outputsVec4 beyond their length is
\* read, whatever the number of keyframes and the count and type of the
\* output accessor
C22_ReadsInRange ==
    Ticked =>
        /\ fault \notin ReadsOutOfRange
        /\ \A a \in 1..Len(animations) :
               \A k \in 1..Len(animations[a].channels) :
                   animations[a].channels[k].samplerIndex < Len(animations[a].samplers)


--------------------------------------------------------------------------
(* C23 *)

\* currentTime of animation a lies between 0 and its end
ClockInRange(anims, a) ==
    anims[a].currentTime >= 0 /\ anims[a].currentTime <= anims[a].end

\* C23 as stated: from currentTime = 0, after any sequence of ticks with
\* non-negative deltaTime, whether at most end or larger, the currentTime of
\* an animation with end > 0 lies within [0, end] after every tick that
\* returned
C23_ClockInRangeAnyStep ==
    (Loaded /\ Completed) =>
        \A a \in 1..Len(animations) :
            animations[a].end > 0 => ClockInRange(animations, a)

\* C23, amended: the currentTime of an animation with end > 0 is 0 after
\* loading, and a tick with a deltaTime between 0 and end takes a currentTime
\* within [0, end] to a currentTime within [0, end]; so it stays there over
\* any sequence of such ticks
C23_ClockInRange ==
    /\ (Loaded /\ last.op = "none") =>
            \A a \in 1..Len(animations) : animations[a].currentTime = 0
    /\ (Ticked /\ ValidSelection) =>
            LET a == activeAnimation + 1
            IN  ( /\ animations[a].end > 0
                  /\ ClockInRange(last.animations, a)
                  /\ last.deltaTime >= 0
                  /\ last.deltaTime <= animations[a].end )
                => ClockInRange(animations, a)

\* the second of two ticks with a deltaTime of at most end: it passes end and
\* is wrapped back
C23_Witness ==
    /\ Ticked /\ ValidSelection
    /\ LET a == activeAnimation + 1
       IN  /\ animations[a].end > 0
           /\ last.animations[a].currentTime > 0
           /\ ClockInRange(last.animations, a)
           /\ last.deltaTime > 0
           /\ last.deltaTime <= animations[a].end
           /\ last.animations[a].currentTime + last.deltaTime > animations[a].end
           /\ animations[a].currentTime =
                  last.animations[a].currentTime + last.deltaTime - animations[a].end
           /\ ClockInRange(animations, a)

====
